---- MODULE Spec2Model ----
(***************************************************************************)
(* Usage Aggregation Engine of mcp-audit: the session ledger, the name     *)
(* normalizer, the recording protocol, the session finalizer and the       *)
(* Codex CLI / Gemini CLI adapters that feed it.                           *)
(*                                                                         *)
(* Strings that the program takes apart (tool identifiers) are sequences   *)
(* of one-character strings.  Python dicts are association lists (a        *)
(* sequence of [key, val] records) so that insertion order is kept.        *)
(* An Optional value is <<>> (None) or <<v>>.  A float quotient a / b is   *)
(* the pair <<a, b>>.                                                      *)
(***************************************************************************)
EXTENDS Integers, Sequences, FiniteSets, TLC

VARIABLES
    platform,             \* Session.platform: which adapter owns the session
    token_usage,          \* Session.token_usage (TokenUsage)
    server_sessions,      \* BaseTracker.server_sessions: server -> ServerSession
    content_hashes,       \* BaseTracker.content_hashes: hash -> call indices
    call_index,           \* index given to the most recently recorded Call
    mcp_tool_calls,       \* Session.mcp_tool_calls (set by finalize_session)
    redundancy_analysis,  \* Session.redundancy_analysis (set by finalize_session)
    anomalies,            \* Session.anomalies (set by finalize_session)
    cache_analysis,       \* Session.cache_analysis (set by finalize_session)
    end_timestamp,        \* Session.end_timestamp (set by finalize_session)
    session_server_sessions, \* Session.server_sessions (set by finalize_session)
    detected_model,       \* adapter.detected_model
    model_name,           \* adapter.model_name
    session_model,        \* Session.model
    pending_tokens,       \* GeminiCLIAdapter._pending_tokens
    pending_latencies,    \* GeminiCLIAdapter._pending_latencies
    thoughts_tokens,      \* GeminiCLIAdapter.thoughts_tokens
    has_received_events,  \* CodexCLIAdapter._has_received_events
    native_total,         \* Codex CLI itself: its cumulative token counters
    native_last_event,    \* Codex CLI itself: the last token_count event it wrote
    last_op,              \* history: the operation that produced this state
    raw_calls,            \* history: the raw identifier and usage of every recorded call
    session_deltas,       \* history: the usage of every session-level delta
    finalize_streak,      \* history: finalize_session calls since the last recording
    steps,                \* history: number of operations performed
    pc,                   \* position of main() and of start_tracking's loop
    source_files,         \* Session.source_files
    saved,                \* the documents save_session has written, oldest first
    telemetry_had_events, \* GeminiCLIAdapter._telemetry_had_events
    escaped,              \* the exception that left parse_event / start_tracking, if any
    last_input,           \* history: the input of the operation that produced this state
    in_flight,            \* the session-level delta _process_tool_call is in the middle of
    current_snapshot,     \* RichDisplay._current_snapshot
    rendered,             \* what the refresh thread of the display drew last
    pinned_servers,       \* RichDisplay.pinned_servers
    telemetry,            \* the telemetry file: the pieces written to it, oldest first
    file_exists,          \* whether the telemetry file exists
    file_position,        \* GeminiCLIAdapter.file_position
    batch,                \* the new content _process_new_telemetry has read and not yet parsed
    parsed                \* history: the texts given to parse_event by the file reader

vars == <<platform, token_usage, server_sessions, content_hashes, call_index,
          mcp_tool_calls, redundancy_analysis, anomalies, cache_analysis, end_timestamp,
          session_server_sessions, detected_model, model_name, session_model,
          pending_tokens, pending_latencies, thoughts_tokens,
          has_received_events, native_total, native_last_event,
          last_op, raw_calls, session_deltas, finalize_streak, steps,
          pc, source_files, saved, telemetry_had_events, escaped, last_input,
          in_flight, current_snapshot, rendered, pinned_servers,
          telemetry, file_exists, file_position, batch, parsed>>

ledger == <<token_usage, server_sessions, content_hashes, call_index>>
derived == <<mcp_tool_calls, redundancy_analysis, anomalies, cache_analysis>>
model_vars == <<detected_model, model_name, session_model>>
gemini_vars == <<pending_tokens, pending_latencies, thoughts_tokens>>
codex_vars == <<has_received_events, native_total, native_last_event>>
display_vars == <<in_flight, current_snapshot, rendered, pinned_servers>>
tail_vars == <<telemetry, file_exists, file_position, batch, parsed>>
aux_vars == <<display_vars, tail_vars>>
run_vars == <<pc, source_files, saved, telemetry_had_events, escaped, aux_vars>>

-----------------------------------------------------------------------------
(* Bounds of the model *)

MaxSteps == 4

-----------------------------------------------------------------------------
(* Generic helpers *)

None == <<>>
Some(v) == <<v>>

RECURSIVE SumSeq(_)
SumSeq(s) == IF s = <<>> THEN 0 ELSE Head(s) + SumSeq(Tail(s))

RECURSIVE Flatten(_)
Flatten(ss) == IF ss = <<>> THEN <<>> ELSE Head(ss) \o Flatten(Tail(ss))

\* Python dict, insertion-ordered
DictKeys(d) == {d[i].key : i \in DOMAIN d}
DictGet(d, k) == d[CHOOSE i \in DOMAIN d : d[i].key = k].val
DictPut(d, k, v) ==
    IF k \in DictKeys(d)
    THEN [i \in DOMAIN d |-> IF d[i].key = k THEN [key |-> k, val |-> v] ELSE d[i]]
    ELSE Append(d, [key |-> k, val |-> v])
DictValues(d) == [i \in DOMAIN d |-> d[i].val]

\* str.startswith / str.endswith on character sequences
StartsWith(s, p) == Len(s) >= Len(p) /\ SubSeq(s, 1, Len(p)) = p
EndsWith(s, p) == Len(s) >= Len(p) /\ SubSeq(s, Len(s) - Len(p) + 1, Len(s)) = p

\* position of the leftmost "__" in s, 0 when there is none
FirstSep(s) ==
    LET hits == {i \in 1..(Len(s) - 1) : s[i] = "_" /\ s[i + 1] = "_"}
    IN IF hits = {} THEN 0 ELSE CHOOSE i \in hits : \A j \in hits : i <= j

-----------------------------------------------------------------------------
(* Identifiers *)

MCP_PREFIX == <<"m", "c", "p", "_", "_">>
SEP == <<"_", "_">>
MCP_SUFFIX == <<"-", "m", "c", "p">>
SESSION_SENTINEL == <<"_", "_", "s", "e", "s", "s", "i", "o", "n", "_", "_">>
UNKNOWN_SERVER == <<"u", "n", "k", "n", "o", "w", "n">>

\* the two spellings of an MCP tool identifier
PlainId(s, t) == MCP_PREFIX \o s \o SEP \o t
SuffixedId(s, t) == MCP_PREFIX \o s \o MCP_SUFFIX \o SEP \o t

-----------------------------------------------------------------------------
(* Name Normalizer (spec 4.1) *)

\* the server segment: what lies between the prefix and the next "__"
ServerSegment(tool_name) ==
    LET rest == SubSeq(tool_name, Len(MCP_PREFIX) + 1, Len(tool_name))
        k == FirstSep(rest)
    IN IF k = 0 THEN rest ELSE SubSeq(rest, 1, k - 1)

\* what follows the server segment, its leading "__" included
AfterServerSegment(tool_name) ==
    LET rest == SubSeq(tool_name, Len(MCP_PREFIX) + 1, Len(tool_name))
        k == FirstSep(rest)
    IN IF k = 0 THEN <<>> ELSE SubSeq(rest, k, Len(rest))

KeepMcpSuffix(seg) == seg

StripMcpSuffix(seg) ==
    IF EndsWith(seg, MCP_SUFFIX) THEN SubSeq(seg, 1, Len(seg) - Len(MCP_SUFFIX)) ELSE seg

normalize_server_name(tool_name) ==
    IF StartsWith(tool_name, MCP_PREFIX)
    THEN StripMcpSuffix(ServerSegment(tool_name))
    ELSE UNKNOWN_SERVER

normalize_tool_name(tool_name) ==
    IF StartsWith(tool_name, MCP_PREFIX)
    THEN MCP_PREFIX \o StripMcpSuffix(ServerSegment(tool_name)) \o AfterServerSegment(tool_name)
    ELSE tool_name

\* the non-fatal warning of a failed normalization
normalize_warns(tool_name) == ~StartsWith(tool_name, MCP_PREFIX)

-----------------------------------------------------------------------------
(* Data model (spec 3) *)

NewTokenUsage ==
    [input_tokens |-> 0, output_tokens |-> 0, reasoning_tokens |-> 0,
     cache_created_tokens |-> 0, cache_read_tokens |-> 0, total_tokens |-> 0,
     cache_efficiency |-> <<0, 1>>]

NewToolStats ==
    [calls |-> 0, total_tokens |-> 0, avg_tokens |-> <<0, 1>>,
     cache_created_tokens |-> 0, cache_read_tokens |-> 0,
     total_duration_ms |-> None, avg_duration_ms |-> None,
     min_duration_ms |-> None, max_duration_ms |-> None,
     call_history |-> <<>>]

NewServerSession(server) ==
    [server |-> server, total_calls |-> 0, total_tokens |-> 0, tools |-> <<>>]

UsageTotal(usage) ==
    usage.input_tokens + usage.output_tokens
        + usage.cache_created_tokens + usage.cache_read_tokens

\* every Call of the ledger, server by server and tool by tool
AllCalls == Flatten(Flatten([i \in DOMAIN server_sessions |->
                [j \in DOMAIN server_sessions[i].val.tools |->
                    server_sessions[i].val.tools[j].val.call_history]]))

AllToolStats == Flatten([i \in DOMAIN server_sessions |->
                    server_sessions[i].val.tools])

-----------------------------------------------------------------------------
(* Recording Protocol (spec 4.2): BaseTracker.record_tool_call *)

\* cache_efficiency of a TokenUsage: cache_read / (input + created + read), 0 on 0
CacheEfficiencyOf(tu) ==
    LET total_input == tu.input_tokens + tu.cache_created_tokens + tu.cache_read_tokens
    IN IF total_input = 0 THEN <<0, 1>> ELSE <<tu.cache_read_tokens, total_input>>

\* Session.TokenUsage after a recorded call: the call's deltas are added
TokenUsageAfterCall(tu, input_tokens, output_tokens, cache_created_tokens, cache_read_tokens) ==
    LET added == [tu EXCEPT
            !.input_tokens = @ + input_tokens,
            !.output_tokens = @ + output_tokens,
            !.cache_created_tokens = @ + cache_created_tokens,
            !.cache_read_tokens = @ + cache_read_tokens,
            !.total_tokens = @ + input_tokens + output_tokens
                               + cache_created_tokens + cache_read_tokens]
    IN [added EXCEPT !.cache_efficiency = CacheEfficiencyOf(added)]

Min2(a, b) == IF a <= b THEN a ELSE b
Max2(a, b) == IF a >= b THEN a ELSE b

\* duration aggregates of a ToolStats after one more call (0 = no duration)
DurationsAfterCall(ts, duration_ms, calls) ==
    IF duration_ms = 0
    THEN ts
    ELSE LET total == (IF ts.total_duration_ms = None THEN 0 ELSE ts.total_duration_ms[1])
                          + duration_ms
         IN [ts EXCEPT
                !.total_duration_ms = Some(total),
                !.avg_duration_ms = Some(<<total, calls>>),
                !.min_duration_ms = IF @ = None THEN Some(duration_ms)
                                    ELSE Some(Min2(@[1], duration_ms)),
                !.max_duration_ms = IF @ = None THEN Some(duration_ms)
                                    ELSE Some(Max2(@[1], duration_ms))]

\* a ToolStats after one more call: additive
ToolStatsAfterCall(ts, call, duration_ms) ==
    LET counted == [ts EXCEPT
            !.calls = @ + 1,
            !.total_tokens = @ + call.total_tokens,
            !.avg_tokens = <<ts.total_tokens + call.total_tokens, ts.calls + 1>>,
            !.cache_created_tokens = @ + call.cache_created_tokens,
            !.cache_read_tokens = @ + call.cache_read_tokens,
            !.call_history = Append(@, call)]
    IN DurationsAfterCall(counted, duration_ms, counted.calls)

\* variant: the server's total_tokens is not rolled up from the call
ServerSessionAfterCall_TokensNotRolledUp(ss, call, duration_ms) ==
    LET ts == IF call.tool_name \in DictKeys(ss.tools)
              THEN DictGet(ss.tools, call.tool_name) ELSE NewToolStats
    IN [ss EXCEPT
            !.total_calls = @ + 1,
            !.tools = DictPut(@, call.tool_name, ToolStatsAfterCall(ts, call, duration_ms))]

\* a ServerSession after one more call to one of its tools
ServerSessionAfterCall(ss, call, duration_ms) ==
    LET ts == IF call.tool_name \in DictKeys(ss.tools)
              THEN DictGet(ss.tools, call.tool_name) ELSE NewToolStats
    IN [ss EXCEPT
            !.total_calls = @ + 1,
            !.total_tokens = @ + call.total_tokens,
            !.tools = DictPut(@, call.tool_name, ToolStatsAfterCall(ts, call, duration_ms))]

ReuseCallIndex(n) == IF n = 0 THEN 1 ELSE n

NextCallIndex(n) == n + 1

NewCall(tool_name, input_tokens, output_tokens, cache_created_tokens, cache_read_tokens, duration_ms, content_hash, platform_data) ==
    [tool_name |-> normalize_tool_name(tool_name),
     server |-> normalize_server_name(tool_name),
     index |-> NextCallIndex(call_index),
     input_tokens |-> input_tokens,
     output_tokens |-> output_tokens,
     cache_created_tokens |-> cache_created_tokens,
     cache_read_tokens |-> cache_read_tokens,
     total_tokens |-> input_tokens + output_tokens
                        + cache_created_tokens + cache_read_tokens,
     duration_ms |-> IF duration_ms = 0 THEN None ELSE Some(duration_ms),
     content_hash |-> content_hash,
     platform_data |-> platform_data]

record_tool_call(tool_name, input_tokens, output_tokens, cache_created_tokens, cache_read_tokens, duration_ms, content_hash, platform_data) ==
    LET call == NewCall(tool_name, input_tokens, output_tokens, cache_created_tokens,
                        cache_read_tokens, duration_ms, content_hash, platform_data)
        ss == IF call.server \in DictKeys(server_sessions)
              THEN DictGet(server_sessions, call.server)
              ELSE NewServerSession(call.server)
    IN /\ call_index' = call.index
       /\ server_sessions' =
            DictPut(server_sessions, call.server, ServerSessionAfterCall(ss, call, duration_ms))
       /\ token_usage' = TokenUsageAfterCall(token_usage, input_tokens, output_tokens,
                                             cache_created_tokens, cache_read_tokens)
       /\ content_hashes' =
            IF content_hash = None
            THEN content_hashes
            ELSE DictPut(content_hashes, content_hash[1],
                         Append(IF content_hash[1] \in DictKeys(content_hashes)
                                THEN DictGet(content_hashes, content_hash[1]) ELSE <<>>,
                                call.index))

\* BaseTracker.compute_content_hash: equal inputs, equal hashes; different inputs differ
compute_content_hash(input_data) == <<"sha256", input_data>>

-----------------------------------------------------------------------------
(* Adapters: _process_tool_call *)

\* dict.get(key, default)
Get(d, key, default) == IF key \in DOMAIN d THEN d[key] ELSE default

UNKNOWN_MODEL == "Unknown Model"

\* variant: the session total leaves the cache-read tokens out
CodexSessionDelta_NoCacheInTotal(tu, usage, total_tokens) ==
    [tu EXCEPT
        !.input_tokens = @ + usage.input_tokens,
        !.output_tokens = @ + usage.output_tokens,
        !.cache_created_tokens = @ + usage.cache_created_tokens,
        !.cache_read_tokens = @ + usage.cache_read_tokens,
        !.total_tokens = @ + total_tokens - usage.cache_read_tokens]

\* variant: a delta whose counts sum to nothing or less is left out
CodexSessionDelta_PositiveOnly(tu, usage, total_tokens) ==
    IF total_tokens <= 0
    THEN tu
    ELSE [tu EXCEPT
            !.input_tokens = @ + usage.input_tokens,
            !.output_tokens = @ + usage.output_tokens,
            !.cache_created_tokens = @ + usage.cache_created_tokens,
            !.cache_read_tokens = @ + usage.cache_read_tokens,
            !.total_tokens = @ + total_tokens]

\* CodexCLIAdapter._process_tool_call, the "__session__" branch
CodexSessionDelta(tu, usage, total_tokens) ==
    LET added == [tu EXCEPT
            !.input_tokens = @ + usage.input_tokens,
            !.output_tokens = @ + usage.output_tokens,
            !.cache_created_tokens = @ + usage.cache_created_tokens,
            !.cache_read_tokens = @ + usage.cache_read_tokens,
            !.total_tokens = @ + total_tokens]
        total_input == added.input_tokens + added.cache_created_tokens
                          + added.cache_read_tokens
    IN IF total_input > 0
       THEN [added EXCEPT !.cache_efficiency = <<added.cache_read_tokens, total_input>>]
       ELSE added

\* variant: a session-level delta also takes a call index
CodexProcessToolCall_SessionTakesIndex(tool_name, usage) ==
    IF tool_name = SESSION_SENTINEL
    THEN /\ token_usage' = CodexSessionDelta(token_usage, usage, UsageTotal(usage))
         /\ call_index' = call_index + 1
         /\ UNCHANGED <<server_sessions, content_hashes>>
    ELSE record_tool_call(tool_name, usage.input_tokens, usage.output_tokens,
                          usage.cache_created_tokens, usage.cache_read_tokens, 0,
                          IF Get(usage, "tool_params", <<>>) # <<>>
                          THEN Some(compute_content_hash(usage.tool_params)) ELSE None,
                          [model |-> detected_model, model_name |-> model_name])

\* variant: an identifier without the mcp__ prefix is dropped
CodexProcessToolCall_DropsNonMcp(tool_name, usage) ==
    IF tool_name = SESSION_SENTINEL
    THEN /\ token_usage' = CodexSessionDelta(token_usage, usage, UsageTotal(usage))
         /\ UNCHANGED <<server_sessions, content_hashes, call_index>>
    ELSE IF ~StartsWith(tool_name, MCP_PREFIX)
    THEN UNCHANGED ledger
    ELSE record_tool_call(tool_name, usage.input_tokens, usage.output_tokens,
                          usage.cache_created_tokens, usage.cache_read_tokens, 0,
                          IF Get(usage, "tool_params", <<>>) # <<>>
                          THEN Some(compute_content_hash(usage.tool_params)) ELSE None,
                          [model |-> detected_model, model_name |-> model_name])

CodexProcessToolCall(tool_name, usage) ==
    LET total_tokens == usage.input_tokens + usage.output_tokens
                          + usage.cache_created_tokens + usage.cache_read_tokens
        tool_params == Get(usage, "tool_params", <<>>)
        content_hash == IF tool_params # <<>>
                        THEN Some(compute_content_hash(tool_params)) ELSE None
        platform_data == [model |-> detected_model, model_name |-> model_name]
    IN IF tool_name = SESSION_SENTINEL
       THEN /\ token_usage' = CodexSessionDelta(token_usage, usage, total_tokens)
            /\ UNCHANGED <<server_sessions, content_hashes, call_index>>
       ELSE record_tool_call(tool_name, usage.input_tokens, usage.output_tokens,
                             usage.cache_created_tokens, usage.cache_read_tokens,
                             0, content_hash, platform_data)

\* variant: the output counter is not updated
GeminiSessionDelta_NoOutput(tu, usage, total_tokens) ==
    [tu EXCEPT
        !.input_tokens = @ + usage.input_tokens,
        !.cache_created_tokens = @ + usage.cache_created_tokens,
        !.cache_read_tokens = @ + usage.cache_read_tokens,
        !.total_tokens = @ + total_tokens]

\* GeminiCLIAdapter._process_tool_call, the "__session__" branch
GeminiSessionDelta(tu, usage, total_tokens) ==
    LET added == [tu EXCEPT
            !.input_tokens = @ + usage.input_tokens,
            !.output_tokens = @ + usage.output_tokens,
            !.cache_created_tokens = @ + usage.cache_created_tokens,
            !.cache_read_tokens = @ + usage.cache_read_tokens,
            !.total_tokens = @ + total_tokens]
        total_input == added.input_tokens + added.cache_created_tokens
                          + added.cache_read_tokens
    IN IF total_input > 0
       THEN [added EXCEPT !.cache_efficiency = <<added.cache_read_tokens, total_input>>]
       ELSE added

\* variant: a session-level delta is also recorded as a tool call
GeminiProcessToolCall_SessionAsCall(tool_name, usage) ==
    record_tool_call(tool_name, usage.input_tokens, usage.output_tokens,
                     usage.cache_created_tokens, usage.cache_read_tokens,
                     Get(usage, "duration_ms", 0), None,
                     [model |-> detected_model, success |-> Get(usage, "success", TRUE),
                      decision |-> IF "decision" \in DOMAIN usage
                                   THEN Some(usage.decision) ELSE None,
                      thoughts_tokens |-> pending_tokens.thought])

\* variant: the call's duration is not passed on
GeminiProcessToolCall_NoDuration(tool_name, usage) ==
    IF tool_name = SESSION_SENTINEL
    THEN /\ token_usage' = GeminiSessionDelta(token_usage, usage, UsageTotal(usage))
         /\ UNCHANGED <<server_sessions, content_hashes, call_index>>
    ELSE record_tool_call(tool_name, usage.input_tokens, usage.output_tokens,
                          usage.cache_created_tokens, usage.cache_read_tokens, 0, None,
                          [model |-> detected_model, success |-> Get(usage, "success", TRUE),
                           decision |-> IF "decision" \in DOMAIN usage
                                        THEN Some(usage.decision) ELSE None,
                           thoughts_tokens |-> pending_tokens.thought])

\* GeminiCLIAdapter._process_tool_call, `pending` being self._pending_tokens
\* at the time of the call
GeminiProcessToolCallWith(tool_name, usage, pending) ==
    LET total_tokens == usage.input_tokens + usage.output_tokens
                          + usage.cache_created_tokens + usage.cache_read_tokens
        content_hash == None
        platform_data == [model |-> detected_model,
                          success |-> Get(usage, "success", TRUE),
                          decision |-> IF "decision" \in DOMAIN usage
                                       THEN Some(usage.decision) ELSE None,
                          thoughts_tokens |-> pending.thought]
    IN IF tool_name = SESSION_SENTINEL
       THEN /\ token_usage' = GeminiSessionDelta(token_usage, usage, total_tokens)
            /\ UNCHANGED <<server_sessions, content_hashes, call_index>>
       ELSE record_tool_call(tool_name, usage.input_tokens, usage.output_tokens,
                             usage.cache_created_tokens, usage.cache_read_tokens,
                             Get(usage, "duration_ms", 0), content_hash, platform_data)

GeminiProcessToolCall(tool_name, usage) ==
    LET total_tokens == usage.input_tokens + usage.output_tokens
                          + usage.cache_created_tokens + usage.cache_read_tokens
        content_hash == None
        platform_data == [model |-> detected_model,
                          success |-> Get(usage, "success", TRUE),
                          decision |-> IF "decision" \in DOMAIN usage
                                       THEN Some(usage.decision) ELSE None,
                          thoughts_tokens |-> pending_tokens.thought]
    IN IF tool_name = SESSION_SENTINEL
       THEN /\ token_usage' = GeminiSessionDelta(token_usage, usage, total_tokens)
            /\ UNCHANGED <<server_sessions, content_hashes, call_index>>
       ELSE record_tool_call(tool_name, usage.input_tokens, usage.output_tokens,
                             usage.cache_created_tokens, usage.cache_read_tokens,
                             Get(usage, "duration_ms", 0), content_hash, platform_data)

-----------------------------------------------------------------------------
(* Session Finalizer and Analyzers (spec 4.5): BaseTracker.finalize_session *)

MostCalledK == 5
HighFrequencyThreshold == 10
HighAvgTokensThreshold == 500000
TopCacheK == 3
\* the cache-ratio threshold 0.1 is 1 / LowReuseDivisor
LowReuseDivisor == 10

\* sorted(items, key=..., reverse=True): stable, largest key first;
\* the items are [rank, item] records, rank being the sort key
RECURSIVE InsertDesc(_, _)
InsertDesc(sorted, ranked) ==
    IF sorted = <<>> THEN <<ranked>>
    ELSE IF Head(sorted).rank >= ranked.rank
         THEN <<Head(sorted)>> \o InsertDesc(Tail(sorted), ranked)
         ELSE <<ranked>> \o sorted

RECURSIVE SortDesc(_)
SortDesc(items) ==
    IF items = <<>> THEN <<>>
    ELSE InsertDesc(SortDesc(SubSeq(items, 1, Len(items) - 1)), items[Len(items)])

Take(s, n) == SubSeq(s, 1, Min2(n, Len(s)))

\* str(n) of a non-negative integer, as characters
DigitChars == <<"0", "1", "2", "3", "4", "5", "6", "7", "8", "9">>
RECURSIVE Digits(_)
Digits(n) ==
    IF n < 10 THEN <<DigitChars[n + 1]>>
    ELSE Digits(n \div 10) \o <<DigitChars[(n % 10) + 1]>>

\* f"{tool} ({calls} calls)"
FormatMostCalled(tool, calls) ==
    tool \o <<" ", "(">> \o Digits(calls) \o <<" ", "c", "a", "l", "l", "s", ")">>

\* variant: the tools are listed as they are stored, not by call count
BuildMcpToolCalls_Unranked ==
    [total_calls |-> SumSeq([i \in DOMAIN server_sessions |->
                                server_sessions[i].val.total_calls]),
     unique_tools |-> Cardinality({AllToolStats[i].key : i \in DOMAIN AllToolStats}),
     most_called |-> [i \in DOMAIN Take(AllToolStats, MostCalledK) |->
                         FormatMostCalled(AllToolStats[i].key, AllToolStats[i].val.calls)]]

\* MCPToolCalls summary
BuildMcpToolCalls ==
    LET ranked == SortDesc([i \in DOMAIN AllToolStats |->
                    [rank |-> AllToolStats[i].val.calls, item |-> AllToolStats[i]]])
    IN [total_calls |-> SumSeq([i \in DOMAIN server_sessions |->
                                    server_sessions[i].val.total_calls]),
        unique_tools |-> Cardinality({AllToolStats[i].key : i \in DOMAIN AllToolStats}),
        most_called |-> [i \in DOMAIN Take(ranked, MostCalledK) |->
                            FormatMostCalled(ranked[i].item.key,
                                             ranked[i].item.val.calls)]]

\* total tokens of the Call that carries an index
CallTotalByIndex(idx) ==
    LET hit == CHOOSE i \in DOMAIN AllCalls : AllCalls[i].index = idx
    IN AllCalls[hit].total_tokens

\* variant: the first call of a bucket is counted as a duplicate too
_analyze_redundancy_CountsFirst ==
    [duplicate_calls |-> SumSeq([i \in DOMAIN content_hashes |->
                                    Len(content_hashes[i].val)]),
     potential_savings |-> SumSeq([i \in DOMAIN content_hashes |->
                                    SumSeq([j \in DOMAIN content_hashes[i].val |->
                                        CallTotalByIndex(content_hashes[i].val[j])])])]

\* redundancy analysis over the content-hash index
_analyze_redundancy ==
    [duplicate_calls |-> SumSeq([i \in DOMAIN content_hashes |->
                                    Len(content_hashes[i].val) - 1]),
     potential_savings |-> SumSeq([i \in DOMAIN content_hashes |->
                                    SumSeq([j \in DOMAIN Tail(content_hashes[i].val) |->
                                        CallTotalByIndex(Tail(content_hashes[i].val)[j])])])]

\* variant: the frequency threshold is met at the threshold itself
ToolAnomalies_AtThreshold(e) ==
    (IF e.val.calls >= HighFrequencyThreshold
     THEN <<[type |-> "high_frequency", tool |-> e.key, calls |-> e.val.calls]>>
     ELSE <<>>)
    \o
    (IF e.val.calls > 0 /\ e.val.total_tokens > HighAvgTokensThreshold * e.val.calls
     THEN <<[type |-> "high_avg_tokens", tool |-> e.key, avg_tokens |-> e.val.avg_tokens]>>
     ELSE <<>>)

\* variant: the average is met at the threshold itself
ToolAnomalies_AvgAtThreshold(e) ==
    (IF e.val.calls > HighFrequencyThreshold
     THEN <<[type |-> "high_frequency", tool |-> e.key, calls |-> e.val.calls]>>
     ELSE <<>>)
    \o
    (IF e.val.calls > 0 /\ e.val.total_tokens >= HighAvgTokensThreshold * e.val.calls
     THEN <<[type |-> "high_avg_tokens", tool |-> e.key, avg_tokens |-> e.val.avg_tokens]>>
     ELSE <<>>)

\* anomalies of one tool: high_frequency first, then high_avg_tokens
ToolAnomalies(e) ==
    (IF e.val.calls > HighFrequencyThreshold
     THEN <<[type |-> "high_frequency", tool |-> e.key, calls |-> e.val.calls]>>
     ELSE <<>>)
    \o
    (IF e.val.calls > 0 /\ e.val.total_tokens > HighAvgTokensThreshold * e.val.calls
     THEN <<[type |-> "high_avg_tokens", tool |-> e.key, avg_tokens |-> e.val.avg_tokens]>>
     ELSE <<>>)

AccumulateAnomalies(old) ==
    old \o Flatten([i \in DOMAIN AllToolStats |-> ToolAnomalies(AllToolStats[i])])

\* anomaly detection, per tool across the whole session; `old` is the list so far
_detect_anomalies(old) ==
    Flatten([i \in DOMAIN AllToolStats |-> ToolAnomalies(AllToolStats[i])])

\* variant: a ratio of exactly 0.1 counts as low reuse
CacheStatus_LowAtThreshold(creation, read) ==
    IF creation = 0 /\ read = 0 THEN [status |-> "neutral", reason |-> "no cache activity"]
    ELSE IF creation > 0 /\ read = 0 THEN [status |-> "inefficient", reason |-> "no reuse"]
    ELSE IF creation > 0 /\ read > 0 /\ read * LowReuseDivisor <= creation
         THEN [status |-> "inefficient", reason |-> "low reuse"]
    ELSE [status |-> "efficient", reason |-> ""]

CacheStatus(creation, read) ==
    IF creation = 0 /\ read = 0 THEN [status |-> "neutral", reason |-> "no cache activity"]
    ELSE IF creation > 0 /\ read = 0 THEN [status |-> "inefficient", reason |-> "no reuse"]
    ELSE IF creation > 0 /\ read > 0 /\ read * LowReuseDivisor < creation
         THEN [status |-> "inefficient", reason |-> "low reuse"]
    ELSE [status |-> "efficient", reason |-> ""]

\* the top tools of a list of [rank, item] records, rank being the token count
TopCacheTools(by_tokens, total) ==
    LET ranked == Take(SortDesc(by_tokens), TopCacheK)
    IN [i \in DOMAIN ranked |->
            [tool |-> ranked[i].item.key, tokens |-> ranked[i].rank,
             pct |-> IF total = 0 THEN <<0, 1>> ELSE <<100 * ranked[i].rank, total>>]]

\* cache analysis from the ToolStats aggregates
_build_cache_analysis ==
    LET Created(e) == e.val.cache_created_tokens
        Read(e) == e.val.cache_read_tokens
        creation == SumSeq([i \in DOMAIN AllToolStats |-> Created(AllToolStats[i])])
        read == SumSeq([i \in DOMAIN AllToolStats |-> Read(AllToolStats[i])])
        st == CacheStatus(creation, read)
    IN [status |-> st.status, reason |-> st.reason,
        creation_tokens |-> creation, read_tokens |-> read,
        ratio |-> IF creation = 0 THEN <<0, 1>> ELSE <<read, creation>>,
        top_cache_creators |->
            TopCacheTools([i \in DOMAIN AllToolStats |->
                [rank |-> Created(AllToolStats[i]), item |-> AllToolStats[i]]], creation),
        top_cache_readers |->
            TopCacheTools([i \in DOMAIN AllToolStats |->
                [rank |-> Read(AllToolStats[i]), item |-> AllToolStats[i]]], read)]

\* variant: finalizing restarts the content-hash index
finalize_session_ResetsIndex ==
    /\ end_timestamp' = Some(steps + 1)
    /\ session_server_sessions' = server_sessions
    /\ mcp_tool_calls' = Some(BuildMcpToolCalls)
    /\ redundancy_analysis' = Some(_analyze_redundancy)
    /\ anomalies' = _detect_anomalies(anomalies)
    /\ cache_analysis' = Some(_build_cache_analysis)
    /\ content_hashes' = <<>>
    /\ UNCHANGED <<token_usage, server_sessions, call_index>>

finalize_session ==
    /\ end_timestamp' = Some(steps + 1)
    /\ session_server_sessions' = server_sessions
    /\ mcp_tool_calls' = Some(BuildMcpToolCalls)
    /\ redundancy_analysis' = Some(_analyze_redundancy)
    /\ anomalies' = _detect_anomalies(anomalies)
    /\ cache_analysis' = Some(_build_cache_analysis)
    /\ UNCHANGED ledger

-----------------------------------------------------------------------------
(* Inputs *)

Zen == <<"z">>
BraveSearch == <<"b", "-", "s">>
Chat == <<"c">>
Web == <<"w">>
Read == <<"R">>

\* raw identifiers handed to _process_tool_call
ToolIds == {PlainId(Zen, Chat), SuffixedId(Zen, Chat), SuffixedId(BraveSearch, Web), Read}

Usage(i, o, cc, cr) ==
    [input_tokens |-> i, output_tokens |-> o,
     cache_created_tokens |-> cc, cache_read_tokens |-> cr]

\* usage dicts of tool calls, as each adapter's parser shapes them
CodexCallUsages ==
    {Usage(400000, 200000, 0, 2) @@ [tool_params |-> <<"p">>, call_id |-> "c1"],
     Usage(1, 0, 2, 0) @@ [tool_params |-> <<>>, call_id |-> "c2"]}

GeminiCallUsages ==
    {Usage(400000, 200000, 0, 2)
        @@ [duration_ms |-> 7, success |-> TRUE, decision |-> "auto_accept"],
     Usage(1, 0, 2, 0)}

\* usage dicts of session-level deltas
SessionUsages == {Usage(4, 1, 0, 3), Usage(-1, 2, 0, 0)}

-----------------------------------------------------------------------------
(* The ledger under _process_tool_call and finalize_session *)

\* the session, the adapter and the display after construction, but for the
\* servers the display was told to pin
InitUnpinned ==
    /\ token_usage = NewTokenUsage
    /\ server_sessions = <<>>
    /\ content_hashes = <<>>
    /\ call_index = 0
    /\ mcp_tool_calls = None
    /\ redundancy_analysis = None
    /\ anomalies = <<>>
    /\ cache_analysis = None
    /\ end_timestamp = None
    /\ session_server_sessions = <<>>
    /\ detected_model = None
    /\ model_name = UNKNOWN_MODEL
    /\ session_model = None
    /\ pending_tokens = [input |-> 0, output |-> 0, cache |-> 0, thought |-> 0]
    /\ pending_latencies = <<>>
    /\ thoughts_tokens = 0
    /\ has_received_events = FALSE
    /\ native_total = [input_tokens |-> 0, cached_input_tokens |-> 0,
                       output_tokens |-> 0, reasoning_output_tokens |-> 0]
    /\ native_last_event = None
    /\ last_op = "init"
    /\ raw_calls = <<>>
    /\ session_deltas = <<>>
    /\ finalize_streak = 0
    /\ steps = 0
    /\ pc = "created"
    /\ source_files = <<>>
    /\ saved = <<>>
    /\ telemetry_had_events = FALSE
    /\ escaped = None
    /\ last_input = None
    /\ in_flight = None
    /\ current_snapshot = None
    /\ rendered = None
    /\ telemetry = <<>>
    /\ file_exists = FALSE
    /\ file_position = 0
    /\ batch = None
    /\ parsed = <<>>

InitSession ==
    /\ InitUnpinned
    /\ pinned_servers = {}

Init ==
    /\ platform \in {"codex-cli", "gemini-cli"}
    /\ InitSession

\* history of a step that recorded a tool call
NoteCall(tool_name, usage) ==
    /\ last_op' = "call"
    /\ raw_calls' = Append(raw_calls, [tool_name |-> tool_name, total |-> UsageTotal(usage)])
    /\ steps' = steps + 1
    /\ finalize_streak' = 0
    /\ UNCHANGED session_deltas

\* history of a step that applied a session-level delta
NoteSession(usage) ==
    /\ last_op' = "session"
    /\ session_deltas' = Append(session_deltas, usage)
    /\ steps' = steps + 1
    /\ finalize_streak' = 0
    /\ UNCHANGED raw_calls

CodexToolCall ==
    /\ platform = "codex-cli"
    /\ steps < MaxSteps
    /\ \E tool_name \in ToolIds, usage \in CodexCallUsages :
          /\ CodexProcessToolCall(tool_name, usage)
          /\ NoteCall(tool_name, usage)
    /\ UNCHANGED <<platform, derived, end_timestamp, session_server_sessions,
                   model_vars, gemini_vars, codex_vars, run_vars, last_input>>

CodexSession ==
    /\ platform = "codex-cli"
    /\ steps < MaxSteps
    /\ \E usage \in SessionUsages :
          /\ CodexProcessToolCall(SESSION_SENTINEL, usage)
          /\ NoteSession(usage)
    /\ UNCHANGED <<platform, derived, end_timestamp, session_server_sessions,
                   model_vars, gemini_vars, codex_vars, run_vars, last_input>>

GeminiToolCall ==
    /\ platform = "gemini-cli"
    /\ steps < MaxSteps
    /\ \E tool_name \in ToolIds, usage \in GeminiCallUsages :
          /\ GeminiProcessToolCall(tool_name, usage)
          /\ NoteCall(tool_name, usage)
    /\ UNCHANGED <<platform, derived, end_timestamp, session_server_sessions,
                   model_vars, gemini_vars, codex_vars, run_vars, last_input>>

GeminiSession ==
    /\ platform = "gemini-cli"
    /\ steps < MaxSteps
    /\ \E usage \in SessionUsages :
          /\ GeminiProcessToolCall(SESSION_SENTINEL, usage)
          /\ NoteSession(usage)
    /\ UNCHANGED <<platform, derived, end_timestamp, session_server_sessions,
                   model_vars, gemini_vars, codex_vars, run_vars, last_input>>

Finalize ==
    /\ steps < MaxSteps
    /\ finalize_session
    /\ last_op' = "finalize"
    /\ finalize_streak' = finalize_streak + 1
    /\ steps' = steps + 1
    /\ UNCHANGED <<platform, model_vars, gemini_vars, codex_vars, raw_calls, session_deltas,
                   run_vars, last_input>>

Next ==
    \/ CodexToolCall
    \/ CodexSession
    \/ GeminiToolCall
    \/ GeminiSession
    \/ Finalize

Spec == Init /\ [][Next]_vars

-----------------------------------------------------------------------------
(* Codex CLI adapter: parse_event and the ingestion loop of start_tracking *)

MaxCodexEvents == 4

\* MODEL_DISPLAY_NAMES.get(model_id, model_id)
CodexDisplayName(model_id) ==
    IF model_id = "gpt-5.1" THEN "GPT-5.1"
    ELSE IF model_id = "o4-mini" THEN "O4 Mini"
    ELSE model_id

\* truthiness of an optional dict: present and not empty
Truthy(opt) == opt # None /\ opt[1] # <<>>

\* CodexCLIAdapter._parse_token_count
_parse_token_count(payload) ==
    LET info == Get(payload, "info", None)
        last == IF info = None THEN None ELSE Get(info[1], "last_token_usage", None)
        usage == IF info = None THEN None
                 ELSE IF Truthy(last) THEN last
                 ELSE Get(info[1], "total_token_usage", Some(<<>>))
        usage_dict == Usage(Get(usage[1], "input_tokens", 0),
                            Get(usage[1], "output_tokens", 0)
                                + Get(usage[1], "reasoning_output_tokens", 0),
                            0,
                            Get(usage[1], "cached_input_tokens", 0))
    IN IF ~Truthy(info) THEN None
       ELSE IF ~Truthy(usage) THEN None
       ELSE IF UsageTotal(usage_dict) > 0 THEN Some(<<SESSION_SENTINEL, usage_dict>>)
       ELSE None

\* json.loads of the arguments string; {} when it does not parse
LoadArguments(arguments) == IF arguments.valid THEN arguments.value ELSE <<>>

\* CodexCLIAdapter._parse_function_call
_parse_function_call(payload) ==
    LET tool_name == Get(payload, "name", <<>>)
    IN IF ~StartsWith(tool_name, MCP_PREFIX) THEN None
       ELSE Some(<<tool_name,
                   Usage(0, 0, 0, 0)
                      @@ [tool_params |-> LoadArguments(
                                             Get(payload, "arguments",
                                                 [valid |-> TRUE, value |-> <<>>])),
                          call_id |-> Get(payload, "call_id", None)]>>)

\* CodexCLIAdapter.parse_event: the (tool_name, usage) it returns, or None
CodexParseEvent(data) ==
    LET event_type == Get(data, "type", "")
        payload == Get(data, "payload", <<>>)
    IN IF event_type = "turn_context" THEN None
       ELSE IF event_type = "event_msg" /\ Get(payload, "type", "") = "token_count"
            THEN _parse_token_count(payload)
       ELSE IF event_type = "response_item" /\ Get(payload, "type", "") = "function_call"
            THEN _parse_function_call(payload)
       ELSE None

\* variant: every turn_context event with a model sets the model
_parse_turn_context_LastWins(data) ==
    LET payload == Get(data, "payload", <<>>)
        model_id == Get(payload, "model", "")
    IN IF Get(data, "type", "") = "turn_context" /\ model_id # ""
       THEN /\ detected_model' = Some(model_id)
            /\ model_name' = CodexDisplayName(model_id)
            /\ session_model' = Some(model_id)
       ELSE UNCHANGED model_vars

\* CodexCLIAdapter._parse_turn_context, as parse_event calls it
_parse_turn_context(data) ==
    LET payload == Get(data, "payload", <<>>)
        model_id == Get(payload, "model", "")
    IN IF Get(data, "type", "") = "turn_context" /\ detected_model = None /\ model_id # ""
       THEN /\ detected_model' = Some(model_id)
            /\ model_name' = CodexDisplayName(model_id)
            /\ session_model' = Some(model_id)
       ELSE UNCHANGED model_vars

\* one turn of the loop of start_tracking: parse the line, process the result
CodexIngest(data) ==
    LET result == CodexParseEvent(data)
    IN /\ _parse_turn_context(data)
       /\ IF result # None
          THEN /\ has_received_events' = TRUE
               /\ CodexProcessToolCall(result[1][1], result[1][2])
               /\ IF result[1][1] = SESSION_SENTINEL
                  THEN /\ session_deltas' = Append(session_deltas, result[1][2])
                       /\ UNCHANGED raw_calls
                  ELSE /\ raw_calls' = Append(raw_calls,
                                          [tool_name |-> result[1][1],
                                           total |-> UsageTotal(result[1][2]),
                                           call_id |-> Get(result[1][2], "call_id", None)])
                       /\ UNCHANGED session_deltas
          ELSE UNCHANGED <<has_received_events, ledger, raw_calls, session_deltas>>
       /\ steps' = steps + 1
       /\ finalize_streak' = 0
       /\ last_input' = Some(data)
       /\ UNCHANGED <<platform, derived, end_timestamp, session_server_sessions, gemini_vars,
                      run_vars>>

NativeUsage(i, c, o, r) ==
    [input_tokens |-> i, cached_input_tokens |-> c,
     output_tokens |-> o, reasoning_output_tokens |-> r]

NativeAdd(a, b) ==
    NativeUsage(a.input_tokens + b.input_tokens,
                a.cached_input_tokens + b.cached_input_tokens,
                a.output_tokens + b.output_tokens,
                a.reasoning_output_tokens + b.reasoning_output_tokens)

\* token usage of one model turn, as Codex CLI reports it
TurnUsages == {NativeUsage(4, 1, 1, 0), NativeUsage(2, 0, 1, 1)}

TokenCountEvent(last, total) ==
    [type |-> "event_msg",
     payload |-> [type |-> "token_count",
                  info |-> Some([last_token_usage |-> Some(last),
                                 total_token_usage |-> Some(total)])]]

\* a turn ends: Codex CLI writes a token_count event with the turn's usage
\* and its new cumulative totals
CodexTokenCount ==
    /\ steps < MaxCodexEvents
    /\ \E last \in TurnUsages :
          LET event == TokenCountEvent(last, NativeAdd(native_total, last))
          IN /\ native_total' = NativeAdd(native_total, last)
             /\ native_last_event' = Some(event)
             /\ CodexIngest(event)
    /\ last_op' = "token_count"

\* Codex CLI writes its last token_count event a second time
CodexDuplicateTokenCount ==
    /\ steps < MaxCodexEvents
    /\ native_last_event # None
    /\ CodexIngest(native_last_event[1])
    /\ last_op' = "duplicate_token_count"
    /\ UNCHANGED <<native_total, native_last_event>>

FunctionNames == {PlainId(Zen, Chat), SuffixedId(Zen, Chat), Read}
FunctionArguments ==
    {[valid |-> TRUE, value |-> <<"p">>], [valid |-> TRUE, value |-> <<>>],
     [valid |-> FALSE, value |-> <<>>]}

CallIds == {"call_1", "call_2"}

CodexFunctionCall ==
    /\ steps < MaxCodexEvents
    /\ \E name \in FunctionNames, arguments \in FunctionArguments, call_id \in CallIds :
          CodexIngest([type |-> "response_item",
                       payload |-> [type |-> "function_call", name |-> name,
                                    arguments |-> arguments, call_id |-> Some(call_id)]])
    /\ last_op' = "function_call"
    /\ UNCHANGED <<native_total, native_last_event>>

\* the output of a tool call, as Codex CLI writes it: exit code and, mostly,
\* "Wall time: <seconds> seconds"
FunctionOutputs ==
    {[exit_code |-> 0, wall_time_ms |-> Some(2500)],
     [exit_code |-> 0, wall_time_ms |-> Some(40)],
     [exit_code |-> 0, wall_time_ms |-> None]}

\* a tool call returns: Codex CLI writes a function_call_output event that
\* carries the call's id
CodexFunctionCallOutput ==
    /\ steps < MaxCodexEvents
    /\ \E call_id \in CallIds, output \in FunctionOutputs :
          CodexIngest([type |-> "response_item",
                       payload |-> [type |-> "function_call_output",
                                    call_id |-> Some(call_id), output |-> output]])
    /\ last_op' = "function_call_output"
    /\ UNCHANGED <<native_total, native_last_event>>

CodexTurnContext ==
    /\ steps < MaxCodexEvents
    /\ \E model \in {"gpt-5.1", "gpt-99-turbo", ""} :
          CodexIngest([type |-> "turn_context", payload |-> [model |-> model]])
    /\ last_op' = "turn_context"
    /\ UNCHANGED <<native_total, native_last_event>>

InitCodex ==
    /\ platform = "codex-cli"
    /\ InitSession

NextCodex ==
    \/ CodexTokenCount
    \/ CodexDuplicateTokenCount
    \/ CodexFunctionCall
    \/ CodexFunctionCallOutput
    \/ CodexTurnContext

SpecCodex == InitCodex /\ [][NextCodex]_vars

-----------------------------------------------------------------------------
(* Properties of the ledger *)

CallTotals == [i \in DOMAIN AllCalls |-> AllCalls[i].total_tokens]
DeltaTotals == [i \in DOMAIN session_deltas |-> UsageTotal(session_deltas[i])]
SessionCallCount ==
    SumSeq([i \in DOMAIN server_sessions |-> server_sessions[i].val.total_calls])

\* the Call that carries index k
CallAt(k) == AllCalls[CHOOSE i \in DOMAIN AllCalls : AllCalls[i].index = k]

\* C1: the session's total tokens are the sum of the totals of all recorded Calls
\* plus the sum of the totals of all session-level deltas
C1_TotalIsCallsPlusDeltas ==
    token_usage.total_tokens = SumSeq(CallTotals) + SumSeq(DeltaTotals)

C1_Witness ==
    /\ Len(AllCalls) >= 2
    /\ \E i \in DOMAIN session_deltas : UsageTotal(session_deltas[i]) > 0
    /\ SumSeq(CallTotals) > 0

\* C2: in every reachable state total_tokens is the sum of the five counters
C2_TotalIsSumOfCounters ==
    token_usage.total_tokens =
        token_usage.input_tokens + token_usage.output_tokens
            + token_usage.reasoning_tokens + token_usage.cache_created_tokens
            + token_usage.cache_read_tokens

C2_Witness ==
    /\ Len(AllCalls) >= 1
    /\ Len(session_deltas) >= 2
    /\ token_usage.output_tokens > 0
    /\ token_usage.cache_read_tokens > 0
    /\ token_usage.cache_created_tokens > 0

\* C5: a session-level delta adds its tokens to Session.TokenUsage and changes
\* nothing else: no Call, no ServerSession or ToolStats entry, no call index,
\* no call counter, no content-hash bucket
C5_SessionDeltaFrame ==
    [][(last_op' = "session" /\ steps' = steps + 1) =>
        LET delta == session_deltas'[Len(session_deltas')]
        IN /\ server_sessions' = server_sessions
           /\ content_hashes' = content_hashes
           /\ call_index' = call_index
           /\ token_usage'.input_tokens = token_usage.input_tokens + delta.input_tokens
           /\ token_usage'.output_tokens = token_usage.output_tokens + delta.output_tokens
           /\ token_usage'.cache_created_tokens =
                token_usage.cache_created_tokens + delta.cache_created_tokens
           /\ token_usage'.cache_read_tokens =
                token_usage.cache_read_tokens + delta.cache_read_tokens
           /\ token_usage'.total_tokens = token_usage.total_tokens + UsageTotal(delta)
           /\ token_usage'.reasoning_tokens = token_usage.reasoning_tokens]_vars

C5_Witness ==
    /\ last_op = "session"
    /\ call_index >= 1
    /\ UsageTotal(session_deltas[Len(session_deltas)]) > 0

\* C6: the N recorded Calls carry exactly the indices 1..N, in recording order,
\* whatever their servers and tools and whatever session deltas lie between
C6_SequentialIndices ==
    /\ Len(AllCalls) = Len(raw_calls)
    /\ {AllCalls[i].index : i \in DOMAIN AllCalls} = 1..Len(raw_calls)
    /\ \A k \in 1..Len(raw_calls) :
          /\ k \in {AllCalls[i].index : i \in DOMAIN AllCalls}
          /\ CallAt(k).tool_name = normalize_tool_name(raw_calls[k].tool_name)
          /\ CallAt(k).total_tokens = raw_calls[k].total
    /\ call_index = Len(raw_calls)

C6_Witness ==
    /\ Len(AllCalls) >= 3
    /\ Len(server_sessions) >= 2
    /\ Len(session_deltas) >= 1
    /\ last_op = "call"

\* C7: every recording with a non-sentinel identifier creates exactly one Call
\* and raises the call count by one; an identifier without the mcp__ prefix is
\* recorded under server "unknown" with the raw identifier as tool name
C7_EveryCallRecorded ==
    [][(last_op' = "call" /\ steps' = steps + 1) =>
        LET raw == raw_calls'[Len(raw_calls')]
            new == SelectSeq(AllCalls', LAMBDA c : c.index > call_index)
        IN /\ Len(AllCalls') = Len(AllCalls) + 1
           /\ SessionCallCount' = SessionCallCount + 1
           /\ Len(new) = 1
           /\ normalize_warns(raw.tool_name) =>
                /\ new[1].server = UNKNOWN_SERVER
                /\ new[1].tool_name = raw.tool_name
                /\ UNKNOWN_SERVER \in DictKeys(server_sessions')
                /\ raw.tool_name \in DictKeys(DictGet(server_sessions', UNKNOWN_SERVER).tools)]_vars

C7_Witness ==
    /\ last_op = "call"
    /\ raw_calls[Len(raw_calls)].tool_name = Read
    /\ \E i \in DOMAIN AllCalls :
          AllCalls[i].server = UNKNOWN_SERVER /\ AllCalls[i].tool_name = Read
    /\ Len(AllCalls) >= 2

\* server names the normalizer is tried on
ZenMcp == Zen \o MCP_SUFFIX
C8Servers == {Zen, BraveSearch, ZenMcp}
C8Suffixes == {Chat, Web}

\* a server name that neither ends in -mcp or in "_" nor holds a "__"
RegularServerName(s) ==
    /\ ~EndsWith(s, MCP_SUFFIX)
    /\ FirstSep(s) = 0
    /\ ~EndsWith(s, <<"_">>)

\* every call recorded under mcp__s__t or mcp__s-mcp__t lies under server s
\* and tool mcp__s__t, in that one ToolStats entry
RecordedUnderCanonical(s, t) ==
    \A k \in DOMAIN raw_calls :
        raw_calls[k].tool_name \in {PlainId(s, t), SuffixedId(s, t)} =>
            /\ CallAt(k).server = s
            /\ CallAt(k).tool_name = PlainId(s, t)
            /\ s \in DictKeys(server_sessions)
            /\ PlainId(s, t) \in DictKeys(DictGet(server_sessions, s).tools)
            /\ \E i \in DOMAIN DictGet(DictGet(server_sessions, s).tools,
                                       PlainId(s, t)).call_history :
                  DictGet(DictGet(server_sessions, s).tools,
                          PlainId(s, t)).call_history[i].index = k

\* C8 as stated: for every server name s and tool suffix t both spellings are
\* recorded under (s, mcp__s__t)
C8_Original_EveryServerName ==
    \A s \in C8Servers, t \in C8Suffixes : RecordedUnderCanonical(s, t)

\* C8, amended: for every server name s that does not itself end in -mcp or in
\* an underscore and holds no "__", and every tool suffix t, both spellings are
\* recorded under (s, mcp__s__t), in the same ServerSession and ToolStats entry
C8_BothSpellingsOneEntry ==
    \A s \in {x \in C8Servers : RegularServerName(x)}, t \in C8Suffixes :
        RecordedUnderCanonical(s, t)

C8_Witness ==
    \E s \in {Zen, BraveSearch}, t \in C8Suffixes :
        /\ \E k \in DOMAIN raw_calls : raw_calls[k].tool_name = PlainId(s, t)
        /\ \E k \in DOMAIN raw_calls : raw_calls[k].tool_name = SuffixedId(s, t)
        /\ s \in DictKeys(server_sessions)
        /\ DictKeys(DictGet(server_sessions, s).tools) = {PlainId(s, t)}
        /\ DictGet(DictGet(server_sessions, s).tools, PlainId(s, t)).calls >= 2

-----------------------------------------------------------------------------
(* Properties of the Codex adapter *)

\* C3: a token_count event whose cumulative totals equal those of the token_count
\* event before it leaves every Session.TokenUsage counter unchanged
C3_DuplicateNotCountedTwice ==
    [][(/\ steps' = steps + 1
        /\ last_op' \in {"token_count", "duplicate_token_count"}
        /\ native_last_event # None
        /\ native_last_event'[1].payload.info[1].total_token_usage
             = native_last_event[1].payload.info[1].total_token_usage)
       => token_usage' = token_usage]_vars

\* C4: after any token_count events each session counter equals the value of the
\* most recent event's cumulative total_token_usage
C4_CountersAreLastCumulative ==
    native_last_event # None =>
        LET total == native_last_event[1].payload.info[1].total_token_usage[1]
        IN /\ token_usage.input_tokens = total.input_tokens
           /\ token_usage.output_tokens = total.output_tokens
           /\ token_usage.reasoning_tokens = total.reasoning_output_tokens
           /\ token_usage.cache_read_tokens = total.cached_input_tokens

-----------------------------------------------------------------------------
(* BaseTracker driven directly: record_tool_call, then finalize_session *)

InitTracker ==
    /\ platform = "test"
    /\ InitSession

\* one record_tool_call, with its history
TrackerRecord(tool_name, usage, duration_ms, content_hash) ==
    /\ record_tool_call(tool_name, usage.input_tokens, usage.output_tokens,
                        usage.cache_created_tokens, usage.cache_read_tokens,
                        duration_ms, content_hash, <<>>)
    /\ last_op' = "call"
    /\ raw_calls' = Append(raw_calls,
                           [tool_name |-> tool_name, total |-> UsageTotal(usage),
                            usage |-> usage, duration_ms |-> duration_ms,
                            content_hash |-> content_hash])
    /\ steps' = steps + 1
    /\ finalize_streak' = 0
    /\ UNCHANGED <<platform, derived, end_timestamp, session_server_sessions, model_vars,
                   gemini_vars, codex_vars, run_vars, session_deltas, last_input>>

\* one finalize_session, with its history
TrackerFinalize ==
    /\ finalize_session
    /\ last_op' = "finalize"
    /\ finalize_streak' = finalize_streak + 1
    /\ steps' = steps + 1
    /\ UNCHANGED <<platform, model_vars, gemini_vars, codex_vars, raw_calls, session_deltas,
                   run_vars, last_input>>

-----------------------------------------------------------------------------
(* Redundancy analysis *)

MaxRedundancySteps == 5

HashA == compute_content_hash(<<"a">>)
HashB == compute_content_hash(<<"b">>)

RedundancyCalls ==
    {[tool_name |-> PlainId(Zen, Chat), usage |-> Usage(100, 50, 0, 0)],
     [tool_name |-> SuffixedId(BraveSearch, Web), usage |-> Usage(7, 0, 0, 0)]}

RedundancyRecord ==
    /\ steps < MaxRedundancySteps
    /\ \E c \in RedundancyCalls, content_hash \in {None, Some(HashA), Some(HashB)} :
          TrackerRecord(c.tool_name, c.usage, 0, content_hash)

RedundancyFinalize ==
    /\ steps < MaxRedundancySteps
    /\ TrackerFinalize

NextRedundancy ==
    \/ RedundancyRecord
    \/ RedundancyFinalize

SpecRedundancy == InitTracker /\ [][NextRedundancy]_vars

\* the k-th recorded call repeats the content hash of an earlier one
RepeatsEarlierHash(k) ==
    /\ raw_calls[k].content_hash # None
    /\ \E j \in 1..(k - 1) : raw_calls[j].content_hash = raw_calls[k].content_hash

\* C11: after finalize, duplicate_calls is the sum over the content-hash buckets
\* of (bucket size - 1) and potential_savings the sum of the total tokens of every
\* call of a bucket but its first; a call without content hash adds to neither
C11_RedundancyFromBuckets ==
    last_op = "finalize" =>
        /\ redundancy_analysis # None
        /\ \A i \in DOMAIN content_hashes :
              content_hashes[i].val =
                  SelectSeq([k \in DOMAIN raw_calls |-> k],
                            LAMBDA k : raw_calls[k].content_hash = Some(content_hashes[i].key))
        /\ redundancy_analysis[1].duplicate_calls =
              Cardinality({k \in DOMAIN raw_calls : RepeatsEarlierHash(k)})
        /\ redundancy_analysis[1].potential_savings =
              SumSeq([k \in DOMAIN raw_calls |->
                        IF RepeatsEarlierHash(k) THEN raw_calls[k].total ELSE 0])

C11_Witness ==
    /\ last_op = "finalize"
    /\ Len(content_hashes) = 2
    /\ \E k \in DOMAIN raw_calls : raw_calls[k].content_hash = None
    /\ redundancy_analysis[1].duplicate_calls = 1
    /\ redundancy_analysis[1].potential_savings = 150

-----------------------------------------------------------------------------
(* Anomaly detection: one session, many calls of one tool, finalized at its end *)

MaxAnomalyCalls == 11
MaxOtherToolCalls == 2

ThinkDeep == <<"t">>
BigUsage == Usage(400000, 200000, 0, 0)
MidUsage == Usage(400000, 0, 0, 0)

\* calls recorded so far under a canonical tool name
CallsOf(tool) ==
    Cardinality({i \in DOMAIN AllCalls : AllCalls[i].tool_name = tool})

\* the tool that is called again and again
AnomalyRecord ==
    /\ end_timestamp = None
    /\ CallsOf(PlainId(Zen, Chat)) < MaxAnomalyCalls
    /\ \E usage \in {BigUsage, MidUsage} :
          TrackerRecord(PlainId(Zen, Chat), usage, 0, None)

\* another tool, called at the start of the session
AnomalyRecordOther ==
    /\ end_timestamp = None
    /\ call_index < MaxOtherToolCalls
    /\ CallsOf(PlainId(Zen, Chat)) = 0
    /\ \E usage \in {BigUsage, MidUsage} :
          TrackerRecord(SuffixedId(Zen, ThinkDeep), usage, 0, None)

AnomalyFinalize ==
    /\ end_timestamp = None
    /\ TrackerFinalize

NextAnomalies ==
    \/ AnomalyRecord
    \/ AnomalyRecordOther
    \/ AnomalyFinalize

SpecAnomalies == InitTracker /\ [][NextAnomalies]_vars

\* canonical names of the tools recorded so far, from the history of raw calls
RecordedTools == {normalize_tool_name(raw_calls[k].tool_name) : k \in DOMAIN raw_calls}
RawCallsOf(tool) == {k \in DOMAIN raw_calls : normalize_tool_name(raw_calls[k].tool_name) = tool}
RawTotalOf(tool) ==
    SumSeq([k \in DOMAIN raw_calls |->
              IF normalize_tool_name(raw_calls[k].tool_name) = tool
              THEN raw_calls[k].total ELSE 0])

AnomaliesOf(type, tool) ==
    SelectSeq(anomalies, LAMBDA a : a.type = type /\ a.tool = tool)

\* C12: after finalize the anomaly list holds exactly one high_frequency anomaly,
\* with the tool's name and call count, for each tool called more than 10 times
\* in the session, and none for a tool called 10 times or fewer
C12_HighFrequencyExact ==
    last_op = "finalize" =>
        /\ \A i \in DOMAIN anomalies :
              anomalies[i].type = "high_frequency" => anomalies[i].tool \in RecordedTools
        /\ \A tool \in RecordedTools :
              LET found == AnomaliesOf("high_frequency", tool)
                  calls == Cardinality(RawCallsOf(tool))
              IN IF calls > 10
                 THEN Len(found) = 1 /\ found[1].calls = calls
                 ELSE found = <<>>

C12_Witness ==
    /\ last_op = "finalize"
    /\ Cardinality(RawCallsOf(PlainId(Zen, Chat))) = 11
    /\ Cardinality(RawCallsOf(PlainId(Zen, ThinkDeep))) = 1
    /\ Len(AnomaliesOf("high_frequency", PlainId(Zen, Chat))) = 1
    /\ AnomaliesOf("high_frequency", PlainId(Zen, ThinkDeep)) = <<>>

\* C13: after finalize the anomaly list holds exactly one high_avg_tokens
\* anomaly, with the tool's name and its average, for each tool whose total
\* tokens divided by its call count exceed 500,000, and none for a tool whose
\* average is 500,000 or less; a tool can carry both kinds of anomaly
C13_HighAvgTokensExact ==
    last_op = "finalize" =>
        /\ \A i \in DOMAIN anomalies :
              anomalies[i].type = "high_avg_tokens" => anomalies[i].tool \in RecordedTools
        /\ \A tool \in RecordedTools :
              LET found == AnomaliesOf("high_avg_tokens", tool)
                  calls == Cardinality(RawCallsOf(tool))
                  total == RawTotalOf(tool)
              IN IF total > 500000 * calls
                 THEN /\ Len(found) = 1
                      /\ found[1].avg_tokens[1] * calls = total * found[1].avg_tokens[2]
                 ELSE found = <<>>

\* one tool carries both anomalies, another averages exactly 500,000 and has none
C13_Witness ==
    /\ last_op = "finalize"
    /\ Len(AnomaliesOf("high_frequency", PlainId(Zen, Chat))) = 1
    /\ Len(AnomaliesOf("high_avg_tokens", PlainId(Zen, Chat))) = 1
    /\ Cardinality(RawCallsOf(PlainId(Zen, ThinkDeep))) = 2
    /\ RawTotalOf(PlainId(Zen, ThinkDeep)) = 1000000
    /\ AnomaliesOf("high_avg_tokens", PlainId(Zen, ThinkDeep)) = <<>>

-----------------------------------------------------------------------------
(* Cache analysis: calls with cache tokens, finalized at the session's end *)

MaxCacheCalls == 3

CacheCreated == {0, 10, 11}
CacheRead == {0, 1}

CacheRecord ==
    /\ end_timestamp = None
    /\ call_index < MaxCacheCalls
    /\ \E tool_name \in {PlainId(Zen, Chat), PlainId(Zen, ThinkDeep)},
          cc \in CacheCreated, cr \in CacheRead :
          TrackerRecord(tool_name, Usage(100, 50, cc, cr), 0, None)

CacheFinalize ==
    /\ end_timestamp = None
    /\ TrackerFinalize

NextCache ==
    \/ CacheRecord
    \/ CacheFinalize

SpecCache == InitTracker /\ [][NextCache]_vars

\* aggregate cache tokens of the session, from the history of raw calls
RawCacheCreated == SumSeq([k \in DOMAIN raw_calls |-> raw_calls[k].usage.cache_created_tokens])
RawCacheRead == SumSeq([k \in DOMAIN raw_calls |-> raw_calls[k].usage.cache_read_tokens])

-----------------------------------------------------------------------------
(* Duration aggregates under the adapters' _process_tool_call *)

MaxDurationCalls == 4

\* usage dicts of tool calls with and without a duration
DurationUsages ==
    {Usage(1, 0, 0, 0)} \cup {Usage(1, 0, 0, 0) @@ [duration_ms |-> d] : d \in {0, 3, 7, 9}}

\* history of a recorded call, its duration included
NoteTimedCall(tool_name, usage) ==
    /\ last_op' = "call"
    /\ raw_calls' = Append(raw_calls,
                           [tool_name |-> tool_name, total |-> UsageTotal(usage),
                            duration_ms |-> Get(usage, "duration_ms", 0)])
    /\ steps' = steps + 1
    /\ finalize_streak' = 0
    /\ UNCHANGED session_deltas

DurationGeminiCall ==
    /\ platform = "gemini-cli"
    /\ call_index < MaxDurationCalls
    /\ \E tool_name \in {PlainId(Zen, Chat), SuffixedId(Zen, ThinkDeep)},
          usage \in DurationUsages :
          /\ GeminiProcessToolCall(tool_name, usage)
          /\ NoteTimedCall(tool_name, usage)
    /\ UNCHANGED <<platform, derived, end_timestamp, session_server_sessions,
                   model_vars, gemini_vars, codex_vars, run_vars, last_input>>

DurationCodexCall ==
    /\ platform = "codex-cli"
    /\ call_index < MaxDurationCalls
    /\ \E tool_name \in {PlainId(Zen, Chat), SuffixedId(Zen, ThinkDeep)},
          usage \in CodexCallUsages :
          /\ CodexProcessToolCall(tool_name, usage)
          /\ NoteTimedCall(tool_name, usage)
    /\ UNCHANGED <<platform, derived, end_timestamp, session_server_sessions,
                   model_vars, gemini_vars, codex_vars, run_vars, last_input>>

NextDurations ==
    \/ DurationGeminiCall
    \/ DurationCodexCall

SpecDurations == Init /\ [][NextDurations]_vars

\* the non-zero durations recorded for a canonical tool name, oldest first
RawDurationsOf(tool, raw) ==
    LET mine == SelectSeq(raw, LAMBDA c : /\ normalize_tool_name(c.tool_name) = tool
                                          /\ c.duration_ms # 0)
    IN [k \in DOMAIN mine |-> mine[k].duration_ms]

SeqMin(s) == CHOOSE x \in {s[k] : k \in DOMAIN s} : \A k \in DOMAIN s : x <= s[k]
SeqMax(s) == CHOOSE x \in {s[k] : k \in DOMAIN s} : \A k \in DOMAIN s : x >= s[k]

DurationAggregates(ts) ==
    <<ts.total_duration_ms, ts.avg_duration_ms, ts.min_duration_ms, ts.max_duration_ms>>

\* the duration aggregates of every tool agree with the durations recorded for it
DurationsAgree(tools, raw) ==
    \A i \in DOMAIN tools :
        LET ds == RawDurationsOf(tools[i].key, raw)
            ts == tools[i].val
        IN IF ds = <<>>
           THEN DurationAggregates(ts) = <<None, None, None, None>>
           ELSE /\ ts.total_duration_ms = Some(SumSeq(ds))
                /\ ts.min_duration_ms = Some(SeqMin(ds))
                /\ ts.max_duration_ms = Some(SeqMax(ds))

\* C15: a tool's duration aggregates are all None while no call of it carried a
\* non-zero duration; otherwise the total is the sum and min and max are the
\* smallest and largest of the non-zero durations recorded; a call recorded with
\* duration 0 leaves the aggregates as they were
C15_DurationAggregates ==
    [][(last_op' = "call" /\ steps' = steps + 1) =>
        LET new == raw_calls'[Len(raw_calls')]
            tool == normalize_tool_name(new.tool_name)
            Before(e) == e.key = tool
        IN /\ DurationsAgree(AllToolStats', raw_calls')
           /\ (new.duration_ms = 0 /\ SelectSeq(AllToolStats, Before) # <<>>) =>
                 DurationAggregates(SelectSeq(AllToolStats', Before)[1].val)
                     = DurationAggregates(SelectSeq(AllToolStats, Before)[1].val)]_vars

C15_Witness ==
    /\ last_op = "call"
    /\ raw_calls[Len(raw_calls)].duration_ms = 0
    /\ \E i \in DOMAIN AllToolStats :
          /\ AllToolStats[i].key = normalize_tool_name(raw_calls[Len(raw_calls)].tool_name)
          /\ AllToolStats[i].val.calls = 3
          /\ AllToolStats[i].val.total_duration_ms = Some(10)
          /\ AllToolStats[i].val.min_duration_ms = Some(3)
          /\ AllToolStats[i].val.max_duration_ms = Some(7)
    /\ \E i \in DOMAIN AllToolStats :
          AllToolStats[i].val.total_duration_ms = None

-----------------------------------------------------------------------------
(* Duration backfill in the Codex adapter *)

\* C16: a backfill of duration d > 0 for a call identifier sets duration_ms = d
\* on the most recently recorded Call that carries the identifier and on no
\* other Call, and the owning ToolStats' total, min and max are those of its
\* call history; token counters, indices and other tools stay as they were
C16_BackfillSetsDuration ==
    [][(last_op' = "function_call_output" /\ steps' = steps + 1) =>
        LET out == last_input'[1].payload
            carriers == {k \in DOMAIN raw_calls : raw_calls[k].call_id = out.call_id}
            latest == CHOOSE k \in carriers : \A j \in carriers : j <= k
        IN (carriers # {} /\ out.output.wall_time_ms # None) =>
              /\ Len(AllCalls') = Len(AllCalls)
              /\ \A i \in DOMAIN AllCalls :
                    AllCalls'[i] =
                        IF AllCalls[i].index = latest
                        THEN [AllCalls[i] EXCEPT !.duration_ms = out.output.wall_time_ms]
                        ELSE AllCalls[i]
              /\ \A i \in DOMAIN AllToolStats :
                    LET ts == AllToolStats'[i].val
                        ds == SelectSeq(ts.call_history, LAMBDA c : c.duration_ms # None)
                    IN ds # <<>> =>
                          /\ ts.total_duration_ms =
                                Some(SumSeq([k \in DOMAIN ds |-> ds[k].duration_ms[1]]))
                          /\ ts.min_duration_ms =
                                Some(SeqMin([k \in DOMAIN ds |-> ds[k].duration_ms[1]]))
                          /\ ts.max_duration_ms =
                                Some(SeqMax([k \in DOMAIN ds |-> ds[k].duration_ms[1]]))
              /\ token_usage' = token_usage
              /\ call_index' = call_index]_vars

-----------------------------------------------------------------------------
(* Gemini CLI adapter: parse_event and the reading loop of
   _process_new_telemetry *)

METRIC_TOKEN_USAGE == "gemini_cli.token.usage"
METRIC_TOOL_CALL_COUNT == "gemini_cli.tool.call.count"
METRIC_TOOL_CALL_LATENCY == "gemini_cli.tool.call.latency"

\* MODEL_DISPLAY_NAMES.get(model, model)
GeminiDisplayName(model) ==
    IF model = "gemini-2.5-pro" THEN "Gemini 2.5 Pro"
    ELSE IF model = "gemini-2.0-flash" THEN "Gemini 2.0 Flash"
    ELSE model

\* data.get("name") or data.get("metric_name", "")
MetricName(data) ==
    IF Get(data, "name", "") # "" THEN data.name ELSE Get(data, "metric_name", "")

\* `metric in metric_name`; the metric names of the model are a metric's own
\* name or a name that holds none of the three
MetricIn(metric, metric_name) == metric_name = metric

\* dict.pop(k, default): the value
DictPopValue(d, k, default) == IF k \in DictKeys(d) THEN DictGet(d, k) ELSE default
\* dict.pop(k, default): the dict afterwards
DictPop(d, k) == SelectSeq(d, LAMBDA e : e.key # k)

\* variant: the thought tokens are attributed as output tokens
_parse_tool_call_count_ThoughtAsOutput(data) ==
    LET attributes == Get(data, "attributes", <<>>)
        function_name == Get(attributes, "function_name", <<>>)
    IN IF Get(attributes, "tool_type", "") # "mcp" THEN None
       ELSE IF ~StartsWith(function_name, MCP_PREFIX) THEN None
       ELSE Some(<<function_name,
                   Usage(pending_tokens.input, pending_tokens.output + pending_tokens.thought,
                         0, pending_tokens.cache)
                      @@ [duration_ms |-> DictPopValue(pending_latencies, function_name, 0),
                          success |-> Get(attributes, "success", TRUE),
                          decision |-> Get(attributes, "decision", "auto_accept")]>>)

\* variant: the call takes the latency stored last, whatever its function
_parse_tool_call_count_AnyLatency(data) ==
    LET attributes == Get(data, "attributes", <<>>)
        function_name == Get(attributes, "function_name", <<>>)
    IN IF Get(attributes, "tool_type", "") # "mcp" THEN None
       ELSE IF ~StartsWith(function_name, MCP_PREFIX) THEN None
       ELSE Some(<<function_name,
                   Usage(pending_tokens.input, pending_tokens.output, 0,
                         pending_tokens.cache)
                      @@ [duration_ms |-> IF pending_latencies = <<>> THEN 0
                                          ELSE pending_latencies[Len(pending_latencies)].val,
                          success |-> Get(attributes, "success", TRUE),
                          decision |-> Get(attributes, "decision", "auto_accept")]>>)

\* GeminiCLIAdapter._parse_tool_call_count: what it returns
_parse_tool_call_count(data) ==
    LET attributes == Get(data, "attributes", <<>>)
        function_name == Get(attributes, "function_name", <<>>)
    IN IF Get(attributes, "tool_type", "") # "mcp" THEN None
       ELSE IF ~StartsWith(function_name, MCP_PREFIX) THEN None
       ELSE Some(<<function_name,
                   Usage(pending_tokens.input, pending_tokens.output, 0,
                         pending_tokens.cache)
                      @@ [duration_ms |-> DictPopValue(pending_latencies, function_name, 0),
                          success |-> Get(attributes, "success", TRUE),
                          decision |-> Get(attributes, "decision", "auto_accept")]>>)

\* GeminiCLIAdapter._parse_token_usage: what it returns
_parse_token_usage(data) ==
    LET attributes == Get(data, "attributes", <<>>)
        value == Get(data, "value", 0)
        token_type == Get(attributes, "type", "")
        usage_dict == Usage(IF token_type = "input" THEN value ELSE 0,
                            IF token_type \in {"output", "thought"} THEN value ELSE 0,
                            0,
                            IF token_type = "cache" THEN value ELSE 0)
    IN IF value > 0 THEN Some(<<SESSION_SENTINEL, usage_dict>>) ELSE None

\* GeminiCLIAdapter.parse_event: the (tool_name, usage) it returns, or None
GeminiParseEvent(data) ==
    IF MetricIn(METRIC_TOOL_CALL_COUNT, MetricName(data)) THEN _parse_tool_call_count(data)
    ELSE IF MetricIn(METRIC_TOKEN_USAGE, MetricName(data)) THEN _parse_token_usage(data)
    ELSE None

\* what parse_event and the three parsers leave in the adapter
GeminiParserState(data) ==
    LET metric_name == MetricName(data)
        attributes == Get(data, "attributes", <<>>)
        value == Get(data, "value", 0)
        token_type == Get(attributes, "type", "")
        function_name == Get(attributes, "function_name", <<>>)
        model == Get(attributes, "model", "")
        counted == MetricIn(METRIC_TOOL_CALL_COUNT, metric_name)
                      /\ _parse_tool_call_count(data) # None
        usage == ~MetricIn(METRIC_TOOL_CALL_COUNT, metric_name)
                    /\ MetricIn(METRIC_TOKEN_USAGE, metric_name)
        latency == ~MetricIn(METRIC_TOOL_CALL_COUNT, metric_name)
                      /\ ~MetricIn(METRIC_TOKEN_USAGE, metric_name)
                      /\ MetricIn(METRIC_TOOL_CALL_LATENCY, metric_name)
    IN /\ pending_tokens' =
            IF counted THEN [input |-> 0, output |-> 0, cache |-> 0, thought |-> 0]
            ELSE IF usage /\ token_type \in {"input", "output", "thought", "cache"}
                 THEN [pending_tokens EXCEPT ![token_type] = @ + value]
            ELSE pending_tokens
       /\ thoughts_tokens' =
            IF usage /\ token_type = "thought" THEN thoughts_tokens + value
            ELSE thoughts_tokens
       /\ pending_latencies' =
            IF counted THEN DictPop(pending_latencies, function_name)
            ELSE IF latency /\ function_name # <<>>
                 THEN DictPut(pending_latencies, function_name, value)
            ELSE pending_latencies
       /\ IF usage /\ model # "" /\ detected_model = None
          THEN /\ detected_model' = Some(model)
               /\ model_name' = GeminiDisplayName(model)
               /\ session_model' = Some(model)
          ELSE UNCHANGED model_vars

\* one line of _process_new_telemetry: parse it, process the result
GeminiIngest(data) ==
    LET result == GeminiParseEvent(data)
    IN /\ GeminiParserState(data)
       /\ IF result # None
          THEN /\ telemetry_had_events' = TRUE
               /\ GeminiProcessToolCallWith(result[1][1], result[1][2], pending_tokens')
               /\ IF result[1][1] = SESSION_SENTINEL
                  THEN /\ session_deltas' = Append(session_deltas, result[1][2])
                       /\ UNCHANGED raw_calls
                  ELSE /\ raw_calls' = Append(raw_calls,
                                          [tool_name |-> result[1][1],
                                           total |-> UsageTotal(result[1][2]),
                                           duration_ms |-> result[1][2].duration_ms])
                       /\ UNCHANGED session_deltas
          ELSE UNCHANGED <<telemetry_had_events, ledger, raw_calls, session_deltas>>
       /\ steps' = steps + 1
       /\ finalize_streak' = 0
       /\ last_input' = Some(data)
       /\ UNCHANGED <<platform, derived, end_timestamp, session_server_sessions, codex_vars,
                      pc, source_files, saved, escaped, display_vars>>

-----------------------------------------------------------------------------
(* Persistence codec (spec 6): Session.to_dict, save_session, and the
   reading of a saved document *)

\* every Call of the finalized session, server by server and tool by tool
SessionCalls ==
    Flatten(Flatten([i \in DOMAIN session_server_sessions |->
        [j \in DOMAIN session_server_sessions[i].val.tools |->
            session_server_sessions[i].val.tools[j].val.call_history]]))

\* one element of "tool_calls": duration_ms and content_hash only when set
ToolCallDict(c) ==
    LET base == [index |-> c.index, tool |-> c.tool_name, server |-> c.server,
                 input_tokens |-> c.input_tokens, output_tokens |-> c.output_tokens,
                 total_tokens |-> c.total_tokens]
        timed == IF c.duration_ms = None THEN base
                 ELSE base @@ [duration_ms |-> c.duration_ms[1]]
    IN IF c.content_hash = None THEN timed
       ELSE timed @@ [content_hash |-> c.content_hash[1]]

\* variant: the calls are written server by server, as they are stored
ToolCallsArray_Unsorted ==
    [i \in DOMAIN SessionCalls |-> ToolCallDict(SessionCalls[i])]

\* "tool_calls": the calls of every server in one array, in index order
ToolCallsArray ==
    LET ranked == SortDesc([i \in DOMAIN SessionCalls |->
                      [rank |-> 0 - SessionCalls[i].index, item |-> SessionCalls[i]]])
    IN [i \in DOMAIN ranked |-> ToolCallDict(ranked[i].item)]

\* "mcp_summary"
McpSummary ==
    [total_calls |-> mcp_tool_calls[1].total_calls,
     unique_tools |-> mcp_tool_calls[1].unique_tools,
     unique_servers |-> Len(session_server_sessions),
     servers_used |-> [i \in DOMAIN session_server_sessions |->
                          session_server_sessions[i].key],
     most_called |-> mcp_tool_calls[1].most_called]

\* Session.to_dict of a finalized session
to_dict ==
    [session |-> [platform |-> platform, model |-> session_model,
                  end_timestamp |-> end_timestamp, source_files |-> source_files],
     token_usage |-> token_usage,
     tool_calls |-> ToolCallsArray,
     mcp_summary |-> McpSummary]

\* JSON values, as they stand in the written file
JsonNumber(n) == [json |-> "number", v |-> n]
JsonString(s) == [json |-> "string", v |-> s]
JsonNull == [json |-> "null"]
JsonArray(elems) == [json |-> "array", v |-> elems]
JsonObject(members) == [json |-> "object", v |-> members]
Member(k, j) == [key |-> k, val |-> j]

RECURSIVE Gcd(_, _)
Gcd(a, b) == IF b = 0 THEN a ELSE Gcd(b, a % b)

\* the value of a float quotient: the fraction in lowest terms
FloatValue(q) ==
    IF q[1] = 0 THEN <<0, 1>> ELSE <<q[1] \div Gcd(q[1], q[2]), q[2] \div Gcd(q[1], q[2])>>

\* an optional value is written as null when it is None
DumpOptionalString(opt) == IF opt = None THEN JsonNull ELSE JsonString(opt[1])
DumpOptionalNumber(opt) == IF opt = None THEN JsonNull ELSE JsonNumber(opt[1])

DumpTokenUsage(tu) ==
    JsonObject(<<Member("input_tokens", JsonNumber(tu.input_tokens)),
                 Member("output_tokens", JsonNumber(tu.output_tokens)),
                 Member("reasoning_tokens", JsonNumber(tu.reasoning_tokens)),
                 Member("cache_created_tokens", JsonNumber(tu.cache_created_tokens)),
                 Member("cache_read_tokens", JsonNumber(tu.cache_read_tokens)),
                 Member("total_tokens", JsonNumber(tu.total_tokens)),
                 Member("cache_efficiency", JsonNumber(FloatValue(tu.cache_efficiency)))>>)

DumpToolCall(d) ==
    JsonObject(<<Member("index", JsonNumber(d.index)),
                 Member("tool", JsonString(d.tool)),
                 Member("server", JsonString(d.server)),
                 Member("input_tokens", JsonNumber(d.input_tokens)),
                 Member("output_tokens", JsonNumber(d.output_tokens)),
                 Member("total_tokens", JsonNumber(d.total_tokens))>>
               \o (IF "duration_ms" \in DOMAIN d
                   THEN <<Member("duration_ms", JsonNumber(d.duration_ms))>> ELSE <<>>)
               \o (IF "content_hash" \in DOMAIN d
                   THEN <<Member("content_hash", JsonString(d.content_hash))>> ELSE <<>>))

DumpMcpSummary(m) ==
    JsonObject(<<Member("total_calls", JsonNumber(m.total_calls)),
                 Member("unique_tools", JsonNumber(m.unique_tools)),
                 Member("unique_servers", JsonNumber(m.unique_servers)),
                 Member("servers_used",
                        JsonArray([i \in DOMAIN m.servers_used |->
                                      JsonString(m.servers_used[i])])),
                 Member("most_called",
                        JsonArray([i \in DOMAIN m.most_called |->
                                      JsonString(m.most_called[i])]))>>)

DumpSessionBlock(s) ==
    JsonObject(<<Member("platform", JsonString(s.platform)),
                 Member("model", DumpOptionalString(s.model)),
                 Member("end_timestamp", DumpOptionalNumber(s.end_timestamp)),
                 Member("source_files",
                        JsonArray([i \in DOMAIN s.source_files |->
                                      JsonString(s.source_files[i])]))>>)

\* json.dump of the document
JsonDump(doc) ==
    JsonObject(<<Member("session", DumpSessionBlock(doc.session)),
                 Member("token_usage", DumpTokenUsage(doc.token_usage)),
                 Member("tool_calls",
                        JsonArray([i \in DOMAIN doc.tool_calls |->
                                      DumpToolCall(doc.tool_calls[i])])),
                 Member("mcp_summary", DumpMcpSummary(doc.mcp_summary))>>)

\* json.load: numbers and strings by value, null as None, arrays as lists,
\* objects as dicts
RECURSIVE JsonLoad(_)
JsonLoad(j) ==
    IF j.json = "null" THEN None
    ELSE IF j.json \in {"number", "string"} THEN j.v
    ELSE IF j.json = "array" THEN [i \in DOMAIN j.v |-> JsonLoad(j.v[i])]
    ELSE [k \in DictKeys(j.v) |-> JsonLoad(DictGet(j.v, k))]

\* BaseTracker.save_session: the document is written to the session file
save_session == saved' = Append(saved, JsonDump(to_dict))

-----------------------------------------------------------------------------
(* main() and start_tracking() of the two adapters: a tracked run from the
   start of tracking to the exit of the process *)

MaxRunLines == 3

\* one line of the event source: `kind` is "blank", "text" (not JSON), the
\* kind of JSON value it holds otherwise; `fault` names the field of an
\* object that is null; `data` is the object
RunLine(kind, fault, data) == [kind |-> kind, fault |-> fault, data |-> data]

NoData == [type |-> ""]

CodexLines ==
    {RunLine("blank", "none", NoData),
     RunLine("text", "none", NoData),
     RunLine("array", "none", NoData),
     RunLine("null", "none", NoData),
     RunLine("object", "none", [type |-> "session_meta"]),
     RunLine("object", "none", [type |-> "turn_context", payload |-> [model |-> "gpt-5.1"]]),
     RunLine("object", "payload", [type |-> "turn_context"]),
     RunLine("object", "payload", [type |-> "event_msg"]),
     RunLine("object", "none",
             TokenCountEvent(NativeUsage(4, 1, 1, 0), NativeUsage(4, 1, 1, 0))),
     RunLine("object", "input_tokens",
             TokenCountEvent(NativeUsage(0, 1, 1, 0), NativeUsage(0, 1, 1, 0))),
     RunLine("object", "none",
             [type |-> "response_item", payload |-> [type |-> "function_call"]]),
     RunLine("object", "none",
             [type |-> "response_item",
              payload |-> [type |-> "function_call", name |-> PlainId(Zen, Chat),
                           arguments |-> [valid |-> TRUE, value |-> <<"p">>],
                           call_id |-> Some("call_1")]]),
     RunLine("object", "none",
             [type |-> "response_item",
              payload |-> [type |-> "function_call", name |-> PlainId(BraveSearch, Web),
                           arguments |-> [valid |-> FALSE, value |-> <<>>],
                           call_id |-> Some("call_2")]])}

\* the exception CodexCLIAdapter.parse_event lets through on a line, None
\* when it returns: it catches JSONDecodeError, KeyError and ValueError only
CodexParseRaises(line) ==
    LET event_type == Get(line.data, "type", "")
        payload == Get(line.data, "payload", <<>>)
    IN IF line.kind \in {"blank", "text"} THEN None
       ELSE IF line.kind # "object" THEN Some("AttributeError")
       ELSE IF event_type = "turn_context"
            THEN IF line.fault = "payload" /\ detected_model = None
                 THEN Some("AttributeError") ELSE None
       ELSE IF event_type \in {"event_msg", "response_item"} /\ line.fault = "payload"
            THEN Some("AttributeError")
       ELSE IF /\ event_type = "event_msg"
               /\ Get(payload, "type", "") = "token_count"
               /\ line.fault = "input_tokens"
            THEN Some("TypeError")
       ELSE None

GeminiCount(function_name, tool_type) ==
    [name |-> METRIC_TOOL_CALL_COUNT,
     attributes |-> [function_name |-> function_name, tool_type |-> tool_type]]

GeminiUsage(type, value) ==
    [name |-> METRIC_TOKEN_USAGE,
     attributes |-> [type |-> type, model |-> "gemini-2.5-pro"], value |-> value]

GeminiLines ==
    {RunLine("blank", "none", NoData),
     RunLine("text", "none", NoData),
     RunLine("array", "none", NoData),
     RunLine("number", "none", NoData),
     RunLine("object", "none", [name |-> "gemini_cli.session.count", value |-> 1]),
     RunLine("object", "none", GeminiUsage("input", 5)),
     RunLine("object", "none", GeminiUsage("thought", 3)),
     RunLine("object", "none", GeminiUsage("output", 0)),
     RunLine("object", "none", [metric_name |-> METRIC_TOKEN_USAGE, value |-> 2]),
     RunLine("object", "attributes", [name |-> METRIC_TOKEN_USAGE, value |-> 2]),
     RunLine("object", "value", GeminiUsage("cache", 0)),
     RunLine("object", "none", GeminiCount(PlainId(Zen, Chat), "mcp")),
     RunLine("object", "none", GeminiCount(Read, "native")),
     RunLine("object", "none",
             [name |-> METRIC_TOOL_CALL_LATENCY,
              attributes |-> [function_name |-> PlainId(Zen, Chat)], value |-> 120])}

\* the exception GeminiCLIAdapter.parse_event lets through on a line, None
\* when it returns: it catches JSONDecodeError and KeyError only
GeminiParseRaises(line) ==
    LET metric_name == MetricName(line.data)
        recognized == \/ MetricIn(METRIC_TOOL_CALL_COUNT, metric_name)
                      \/ MetricIn(METRIC_TOKEN_USAGE, metric_name)
                      \/ MetricIn(METRIC_TOOL_CALL_LATENCY, metric_name)
    IN IF line.kind \in {"blank", "text"} THEN None
       ELSE IF line.kind # "object" THEN Some("AttributeError")
       ELSE IF recognized /\ line.fault = "attributes" THEN Some("AttributeError")
       ELSE IF MetricIn(METRIC_TOKEN_USAGE, metric_name) /\ line.fault = "value"
            THEN Some("TypeError")
       ELSE None

\* name of the telemetry file: the last component of its path
TelemetryFile == <<"home", ".gemini", "telemetry.log">>
PathName(path) == path[Len(path)]

\* variant: the whole path is stored
GeminiSourceFiles_WholePath(had_events, current) ==
    IF had_events THEN <<TelemetryFile>> ELSE current

\* start_tracking, on leaving the loop: session.source_files
GeminiSourceFiles(had_events, current) ==
    IF had_events THEN <<PathName(TelemetryFile)>> ELSE current

CodexSourceFiles(had_events, current) ==
    IF had_events THEN <<"codex:stdout">> ELSE current

\* variant: the session is finalized and saved only when start_tracking
\* returns or is interrupted
MainAfterTracking_NoFinally(exc) == IF exc = None THEN "finally" ELSE "exited"

\* main(): where control goes when start_tracking ends, exc being the
\* exception that `except KeyboardInterrupt` does not catch
MainAfterTracking(exc) == "finally"

\* history of a step of the run that reads no line
NoteRunStep(op) ==
    /\ last_op' = op
    /\ steps' = steps + 1
    /\ UNCHANGED <<raw_calls, session_deltas, finalize_streak, last_input>>

\* main() calls start_tracking; it reaches its loop, or is interrupted
\* before, or fails to start (Popen, stat)
RunStart ==
    /\ pc = "created"
    /\ \E outcome \in {"started", "KeyboardInterrupt", "OSError"} :
          /\ pc' = IF outcome = "started" THEN "loop"
                   ELSE IF outcome = "KeyboardInterrupt" THEN MainAfterTracking(None)
                   ELSE MainAfterTracking(Some(outcome))
          /\ escaped' = IF outcome = "OSError" THEN Some(outcome) ELSE None
    /\ NoteRunStep("start")
    /\ UNCHANGED <<platform, ledger, derived, end_timestamp, session_server_sessions,
                   model_vars, gemini_vars, codex_vars,
                   source_files, saved, telemetry_had_events, aux_vars>>

\* a line that parse_event lets an exception through on, or that it returns
\* None for without reading an object
RunLineWithoutObject(line, raised) ==
    /\ pc' = IF raised = None THEN pc ELSE MainAfterTracking(raised)
    /\ escaped' = raised
    /\ steps' = steps + 1
    /\ last_input' = Some(line)
    /\ UNCHANGED <<platform, ledger, derived, end_timestamp, session_server_sessions,
                   model_vars, gemini_vars, has_received_events,
                   raw_calls, session_deltas, finalize_streak,
                   source_files, saved, telemetry_had_events, aux_vars>>

\* start_tracking of Codex: one turn of the loop on a line of stdout
CodexReadLine ==
    /\ platform = "codex-cli"
    /\ pc = "loop"
    /\ steps <= MaxRunLines
    /\ \E line \in CodexLines :
          IF CodexParseRaises(line) # None \/ line.kind # "object"
          THEN RunLineWithoutObject(line, CodexParseRaises(line))
          ELSE CodexIngest(line.data)
    /\ last_op' = "line"
    /\ UNCHANGED <<native_total, native_last_event>>

\* _process_new_telemetry of Gemini: one line of the new content
GeminiReadLine ==
    /\ platform = "gemini-cli"
    /\ pc = "loop"
    /\ steps <= MaxRunLines
    /\ \E line \in GeminiLines :
          IF GeminiParseRaises(line) # None \/ line.kind # "object"
          THEN RunLineWithoutObject(line, GeminiParseRaises(line))
          ELSE GeminiIngest(line.data)
    /\ last_op' = "line"
    /\ UNCHANGED <<native_total, native_last_event, tail_vars>>

\* start_tracking of Codex: readline returns "", the process has ended
CodexExhausted ==
    /\ platform = "codex-cli"
    /\ pc = "loop"
    /\ source_files' = CodexSourceFiles(has_received_events, source_files)
    /\ pc' = MainAfterTracking(None)
    /\ NoteRunStep("exhausted")
    /\ UNCHANGED <<platform, ledger, derived, end_timestamp, session_server_sessions,
                   model_vars, gemini_vars, codex_vars, saved, telemetry_had_events, escaped,
                   aux_vars>>

\* an operator interrupt reaches the loop of start_tracking; Codex then
\* terminates the child and waits for it, which may time out
RunInterrupt ==
    /\ pc = "loop"
    /\ source_files' = IF platform = "codex-cli"
                       THEN CodexSourceFiles(has_received_events, source_files)
                       ELSE GeminiSourceFiles(telemetry_had_events, source_files)
    /\ \E waited \in {"exited", "TimeoutExpired"} :
          /\ waited = "TimeoutExpired" => platform = "codex-cli"
          /\ escaped' = IF waited = "exited" THEN None ELSE Some(waited)
          /\ pc' = MainAfterTracking(escaped')
    /\ NoteRunStep("interrupt")
    /\ UNCHANGED <<platform, ledger, derived, end_timestamp, session_server_sessions,
                   model_vars, gemini_vars, codex_vars, saved, telemetry_had_events,
                   aux_vars>>

\* main(), finally: finalize_session()
MainFinalize ==
    /\ pc = "finally"
    /\ finalize_session
    /\ pc' = "finalized"
    /\ last_op' = "finalize"
    /\ finalize_streak' = finalize_streak + 1
    /\ steps' = steps + 1
    /\ UNCHANGED <<platform, model_vars, gemini_vars, codex_vars, raw_calls, session_deltas,
                   source_files, saved, telemetry_had_events, escaped, last_input, aux_vars>>

\* main(), finally: save_session(output_dir)
MainSave ==
    /\ pc = "finalized"
    /\ save_session
    /\ pc' = "saved"
    /\ NoteRunStep("save")
    /\ UNCHANGED <<platform, ledger, derived, end_timestamp, session_server_sessions,
                   model_vars, gemini_vars, codex_vars,
                   source_files, telemetry_had_events, escaped, aux_vars>>

\* main() returns, or the escaped exception ends the process
MainExit ==
    /\ pc = "saved"
    /\ pc' = "exited"
    /\ NoteRunStep("exit")
    /\ UNCHANGED <<platform, ledger, derived, end_timestamp, session_server_sessions,
                   model_vars, gemini_vars, codex_vars,
                   source_files, saved, telemetry_had_events, escaped, aux_vars>>

NextRun ==
    \/ RunStart
    \/ CodexReadLine
    \/ GeminiReadLine
    \/ CodexExhausted
    \/ RunInterrupt
    \/ MainFinalize
    \/ MainSave
    \/ MainExit

SpecRun == Init /\ [][NextRun]_vars

-----------------------------------------------------------------------------
(* Properties of a tracked run *)

\* the positions of main() after start_tracking has ended
Ended == {"finally", "finalized", "saved", "exited"}

\* the document the run has saved, as it reads back
SavedDocument == JsonLoad(saved[1])

\* C17: whichever way tracking ends (source exhausted, operator interrupt,
\* exception leaving start_tracking), the process exits only after
\* finalize_session() and then save_session() have run, once each, and the
\* saved document holds the tokens and the calls recorded up to the end
C17_FinalizeThenSaveOnEveryExit ==
    /\ pc \in {"saved", "exited"} =>
          /\ end_timestamp # None
          /\ finalize_streak = 1
          /\ Len(saved) = 1
          /\ SavedDocument.session.end_timestamp = end_timestamp[1]
          /\ SavedDocument.mcp_summary.total_calls = Len(raw_calls)
          /\ SavedDocument.token_usage.total_tokens =
                SumSeq([k \in DOMAIN raw_calls |-> raw_calls[k].total])
                   + SumSeq(DeltaTotals)
          /\ Len(SavedDocument.tool_calls) = Len(raw_calls)
          /\ \A k \in DOMAIN raw_calls :
                /\ SavedDocument.tool_calls[k].index = k
                /\ SavedDocument.tool_calls[k].tool =
                      normalize_tool_name(raw_calls[k].tool_name)
                /\ SavedDocument.tool_calls[k].total_tokens = raw_calls[k].total
    /\ pc \notin {"saved", "exited"} => saved = <<>>
    /\ pc \in {"created", "loop", "finally"} => end_timestamp = None

\* a run that an escaping exception ended, after a call and a session delta
\* were recorded, has exited
C17_Witness ==
    /\ pc = "exited"
    /\ escaped # None
    /\ raw_calls # <<>>
    /\ session_deltas # <<>>

\* at least one native event was observed: parse_event returned a result
EventObserved == raw_calls # <<>> \/ session_deltas # <<>>

C19_NoLineEndsTracking ==
    [][last_op' = "line" => (escaped' = None /\ pc' = "loop")]_vars

-----------------------------------------------------------------------------
(* Persistence: a session is recorded, finalized, and saved once *)

MaxPersistCalls == 3

\* the usage, duration and content hash of the calls that are recorded
PersistCalls ==
    {[usage |-> Usage(4, 1, 0, 2), duration_ms |-> 0, content_hash |-> None],
     [usage |-> Usage(4, 1, 0, 2), duration_ms |-> 7, content_hash |-> Some(HashA)],
     [usage |-> Usage(1, 0, 2, 0), duration_ms |-> 7, content_hash |-> None],
     [usage |-> Usage(1, 0, 2, 0), duration_ms |-> 0, content_hash |-> Some(HashA)]}

PersistRecord ==
    /\ end_timestamp = None
    /\ call_index < MaxPersistCalls
    /\ \E tool_name \in {PlainId(Zen, Chat), SuffixedId(Zen, ThinkDeep),
                         PlainId(BraveSearch, Web)},
          c \in PersistCalls :
          TrackerRecord(tool_name, c.usage, c.duration_ms, c.content_hash)

PersistFinalize ==
    /\ end_timestamp = None
    /\ TrackerFinalize

\* save_session, once, after finalize_session
PersistSave ==
    /\ end_timestamp # None
    /\ saved = <<>>
    /\ save_session
    /\ NoteRunStep("save")
    /\ UNCHANGED <<platform, ledger, derived, end_timestamp, session_server_sessions,
                   model_vars, gemini_vars, codex_vars,
                   pc, source_files, telemetry_had_events, escaped, aux_vars>>

NextPersist ==
    \/ PersistRecord
    \/ PersistFinalize
    \/ PersistSave

SpecPersist == InitTracker /\ [][NextPersist]_vars

-----------------------------------------------------------------------------
(* The MCPToolCalls summary and the persisted mcp_summary *)

MaxSummaryCalls == 5
MaxSummaryRepeats == 7

SummaryTools ==
    {PlainId(Zen, Chat), SuffixedId(Zen, Chat), PlainId(Zen, ThinkDeep),
     PlainId(BraveSearch, Web)}

SummaryRecord ==
    /\ end_timestamp = None
    /\ call_index < MaxSummaryCalls
    /\ \E tool_name \in SummaryTools : TrackerRecord(tool_name, Usage(1, 0, 0, 0), 0, None)

\* a burst: the tool of the last call is called again
SummaryRepeat ==
    /\ end_timestamp = None
    /\ call_index >= MaxSummaryCalls
    /\ call_index < MaxSummaryCalls + MaxSummaryRepeats
    /\ TrackerRecord(raw_calls[Len(raw_calls)].tool_name, Usage(1, 0, 0, 0), 0, None)

SummaryFinalize ==
    /\ end_timestamp = None
    /\ TrackerFinalize

NextSummary ==
    \/ SummaryRecord
    \/ SummaryRepeat
    \/ SummaryFinalize

SpecSummary == InitTracker /\ [][NextSummary]_vars

\* the canonical tool names and servers of the recorded calls
CanonicalTools == {normalize_tool_name(raw_calls[k].tool_name) : k \in DOMAIN raw_calls}
CanonicalServers == {normalize_server_name(raw_calls[k].tool_name) : k \in DOMAIN raw_calls}
CallCountOf(tool) ==
    Cardinality({k \in DOMAIN raw_calls : normalize_tool_name(raw_calls[k].tool_name) = tool})

\* reading of a descriptor "<tool> (<n> calls)": where its " (" stands
DescriptorSplit(d) ==
    LET hits == {i \in 1..(Len(d) - 1) : d[i] = " " /\ d[i + 1] = "("}
    IN IF hits = {} THEN 0 ELSE CHOOSE i \in hits : \A j \in hits : j <= i
DescriptorTool(d) == SubSeq(d, 1, DescriptorSplit(d) - 1)
DescriptorDigits(d) == SubSeq(d, DescriptorSplit(d) + 2, Len(d) - 7)
DigitValue(c) == CHOOSE v \in 0..9 : DigitChars[v + 1] = c
RECURSIVE DecimalValue(_)
DecimalValue(digits) ==
    IF digits = <<>> THEN 0
    ELSE 10 * DecimalValue(SubSeq(digits, 1, Len(digits) - 1))
            + DigitValue(digits[Len(digits)])
WellFormedDescriptor(d) ==
    /\ DescriptorSplit(d) > 1
    /\ EndsWith(d, <<" ", "c", "a", "l", "l", "s", ")">>)
    /\ DescriptorDigits(d) # <<>>
    /\ \A i \in DOMAIN DescriptorDigits(d) :
          \E v \in 0..9 : DigitChars[v + 1] = DescriptorDigits(d)[i]
    /\ DescriptorDigits(d)[1] # "0"

\* C21: after finalize, total_calls is the number of recorded Calls,
\* unique_tools the number of distinct canonical tool names, most_called
\* lists distinct tools as "<tool> (<n> calls)" with n the tool's call count,
\* by non-increasing n, no unlisted tool having more calls than a listed one;
\* mcp_summary.unique_servers is the number of ServerSessions and the size
\* of servers_used
C21_SummaryCounts ==
    end_timestamp # None =>
        LET m == mcp_tool_calls[1]
            listed == m.most_called
        IN /\ m.total_calls = Len(raw_calls)
           /\ m.unique_tools = Cardinality(CanonicalTools)
           /\ \A i \in DOMAIN listed :
                 /\ WellFormedDescriptor(listed[i])
                 /\ DescriptorTool(listed[i]) \in CanonicalTools
                 /\ DecimalValue(DescriptorDigits(listed[i]))
                       = CallCountOf(DescriptorTool(listed[i]))
           /\ \A i, j \in DOMAIN listed :
                 /\ i < j => CallCountOf(DescriptorTool(listed[i]))
                                >= CallCountOf(DescriptorTool(listed[j]))
                 /\ i # j => DescriptorTool(listed[i]) # DescriptorTool(listed[j])
           /\ \A t \in CanonicalTools :
                 \/ \E i \in DOMAIN listed : DescriptorTool(listed[i]) = t
                 \/ \A i \in DOMAIN listed :
                       CallCountOf(DescriptorTool(listed[i])) >= CallCountOf(t)
           /\ McpSummary.unique_servers = Len(session_server_sessions)
           /\ McpSummary.unique_servers = Len(McpSummary.servers_used)
           /\ McpSummary.unique_servers = Cardinality(CanonicalServers)
           /\ {McpSummary.servers_used[i] : i \in DOMAIN McpSummary.servers_used}
                 = CanonicalServers

\* a finalized session of three tools on two servers, recorded under both
\* spellings of one of them, the tool recorded last having ten calls
C21_Witness ==
    /\ end_timestamp # None
    /\ Cardinality(CanonicalTools) = 3
    /\ Cardinality(CanonicalServers) = 2
    /\ CallCountOf(normalize_tool_name(raw_calls[Len(raw_calls)].tool_name)) = 10
    /\ \E k \in DOMAIN raw_calls : raw_calls[k].tool_name = SuffixedId(Zen, Chat)
    /\ \E k \in DOMAIN raw_calls : raw_calls[k].tool_name = PlainId(Zen, Chat)

-----------------------------------------------------------------------------
(* Ingestion and the display: the ingestion loop is the one thread that
   changes the ledger, statement by statement; the refresh thread of the
   display draws what RichDisplay.update was given *)

MaxDisplayOps == 3

\* the k-th statement of the session-level path of _process_tool_call
DeltaStatement(tu, usage, k) ==
    IF k = 1 THEN [tu EXCEPT !.input_tokens = @ + usage.input_tokens]
    ELSE IF k = 2 THEN [tu EXCEPT !.output_tokens = @ + usage.output_tokens]
    ELSE IF k = 3 THEN [tu EXCEPT !.cache_created_tokens = @ + usage.cache_created_tokens]
    ELSE IF k = 4 THEN [tu EXCEPT !.cache_read_tokens = @ + usage.cache_read_tokens]
    ELSE IF k = 5 THEN [tu EXCEPT !.total_tokens = @ + UsageTotal(usage)]
    ELSE IF tu.input_tokens + tu.cache_created_tokens + tu.cache_read_tokens > 0
         THEN [tu EXCEPT !.cache_efficiency =
                  <<tu.cache_read_tokens,
                    tu.input_tokens + tu.cache_created_tokens + tu.cache_read_tokens>>]
    ELSE tu
\* the fields the session-level path assigns, in the order of its statements
DeltaFields ==
    <<"input_tokens", "output_tokens", "cache_created_tokens", "cache_read_tokens",
      "total_tokens", "cache_efficiency">>
DeltaStatements == Len(DeltaFields)

\* the snapshot of the session that is handed to the display; as_of is
\* history: how many calls and deltas were recorded when it was taken
DisplaySnapshotOf ==
    [total_tokens |-> token_usage.total_tokens,
     input_tokens |-> token_usage.input_tokens,
     output_tokens |-> token_usage.output_tokens,
     cache_created_tokens |-> token_usage.cache_created_tokens,
     cache_read_tokens |-> token_usage.cache_read_tokens,
     total_tool_calls |-> SumSeq([i \in DOMAIN server_sessions |->
                                    server_sessions[i].val.total_calls]),
     as_of |-> [calls |-> Len(raw_calls), deltas |-> Len(session_deltas)]]

\* variant: the refresh thread reads the session itself
RenderSource_Session == Some(DisplaySnapshotOf)

\* what the refresh thread draws: the layout RichDisplay.update built from
\* the snapshot it was given
RenderSource == current_snapshot

OpsBegun == Len(raw_calls) + Len(session_deltas) + (IF in_flight = None THEN 0 ELSE 1)

\* ingestion: parse_event returned a session-level delta, _process_tool_call starts
IngestBeginDelta ==
    /\ in_flight = None
    /\ end_timestamp = None
    /\ OpsBegun < MaxDisplayOps
    /\ \E usage \in SessionUsages :
          in_flight' = Some([usage |-> usage, at |-> 1, before |-> token_usage])
    /\ last_op' = "begin"
    /\ steps' = steps + 1
    /\ UNCHANGED <<platform, ledger, derived, end_timestamp, session_server_sessions,
                   model_vars, gemini_vars, codex_vars, raw_calls, session_deltas,
                   finalize_streak, last_input, pc, source_files, saved,
                   telemetry_had_events, escaped, current_snapshot, rendered, tail_vars,
                   pinned_servers>>

\* ingestion: the next statement of the session-level path
IngestDeltaStatement ==
    /\ in_flight # None
    /\ token_usage' = DeltaStatement(token_usage, in_flight[1].usage, in_flight[1].at)
    /\ IF in_flight[1].at = DeltaStatements
       THEN /\ in_flight' = None
            /\ session_deltas' = Append(session_deltas, in_flight[1].usage)
            /\ last_op' = "session"
       ELSE /\ in_flight' = Some([in_flight[1] EXCEPT !.at = @ + 1])
            /\ last_op' = "statement"
            /\ UNCHANGED session_deltas
    /\ steps' = steps + 1
    /\ UNCHANGED <<platform, server_sessions, content_hashes, call_index, derived,
                   end_timestamp, session_server_sessions,
                   model_vars, gemini_vars, codex_vars, raw_calls,
                   finalize_streak, last_input, pc, source_files, saved,
                   telemetry_had_events, escaped, current_snapshot, rendered, tail_vars,
                   pinned_servers>>

\* ingestion: parse_event returned a tool call, record_tool_call records it
IngestRecordCall ==
    /\ in_flight = None
    /\ end_timestamp = None
    /\ OpsBegun < MaxDisplayOps
    /\ \E usage \in CodexCallUsages :
          /\ CodexProcessToolCall(PlainId(Zen, Chat), usage)
          /\ NoteCall(PlainId(Zen, Chat), usage)
    /\ UNCHANGED <<platform, derived, end_timestamp, session_server_sessions,
                   model_vars, gemini_vars, codex_vars, run_vars, last_input>>

\* the ingestion loop, between two events, hands a snapshot to the display
DisplayUpdate ==
    /\ in_flight = None
    /\ current_snapshot' = Some(DisplaySnapshotOf)
    /\ current_snapshot' # current_snapshot
    /\ last_op' = "update"
    /\ UNCHANGED <<platform, ledger, derived, end_timestamp, session_server_sessions,
                   model_vars, gemini_vars, codex_vars, raw_calls, session_deltas,
                   finalize_streak, steps, last_input, pc, source_files, saved,
                   telemetry_had_events, escaped, in_flight, rendered, tail_vars,
                   pinned_servers>>

\* the refresh thread of the display draws, at any time
DisplayRefresh ==
    /\ RenderSource # None
    /\ rendered' = RenderSource
    /\ rendered' # rendered
    /\ last_op' = "refresh"
    /\ UNCHANGED <<platform, ledger, derived, end_timestamp, session_server_sessions,
                   model_vars, gemini_vars, codex_vars, raw_calls, session_deltas,
                   finalize_streak, steps, last_input, pc, source_files, saved,
                   telemetry_had_events, escaped, in_flight, current_snapshot, tail_vars,
                   pinned_servers>>

\* the ingestion thread finalizes the session after its loop
IngestFinalize ==
    /\ in_flight = None
    /\ end_timestamp = None
    /\ Finalize

NextDisplay ==
    \/ IngestBeginDelta
    \/ IngestDeltaStatement
    \/ IngestRecordCall
    \/ DisplayUpdate
    \/ DisplayRefresh
    \/ IngestFinalize

SpecDisplay == InitCodex /\ [][NextDisplay]_vars

-----------------------------------------------------------------------------
(* Recording with any integer token counts, negative ones included *)

MaxIntegerSteps == 3

\* token counts of one event: positive, negative and cancelling ones
IntegerUsages ==
    {Usage(2, 1, 0, 1), Usage(-2, 3, 0, -1), Usage(1, 0, 2, 0), Usage(-3, -1, 0, 0)}

IntegerTools == {PlainId(Zen, Chat), SuffixedId(BraveSearch, Web)}

\* _process_tool_call of the session's adapter
ProcessToolCall(tool_name, usage) ==
    IF platform = "codex-cli"
    THEN CodexProcessToolCall(tool_name, usage @@ [tool_params |-> <<>>, call_id |-> "c"])
    ELSE GeminiProcessToolCall(tool_name, usage)

IntegerCall ==
    /\ steps < MaxIntegerSteps
    /\ \E tool_name \in IntegerTools, usage \in IntegerUsages :
          /\ ProcessToolCall(tool_name, usage)
          /\ last_op' = "call"
          /\ raw_calls' = Append(raw_calls, [tool_name |-> tool_name,
                                             total |-> UsageTotal(usage), usage |-> usage])
    /\ steps' = steps + 1
    /\ UNCHANGED <<platform, derived, end_timestamp, session_server_sessions, model_vars,
                   gemini_vars, codex_vars, run_vars, last_input, session_deltas,
                   finalize_streak>>

IntegerDelta ==
    /\ steps < MaxIntegerSteps
    /\ \E usage \in IntegerUsages :
          /\ ProcessToolCall(SESSION_SENTINEL, usage)
          /\ NoteSession(usage)
    /\ UNCHANGED <<platform, derived, end_timestamp, session_server_sessions, model_vars,
                   gemini_vars, codex_vars, run_vars, last_input>>

NextInteger ==
    \/ IntegerCall
    \/ IntegerDelta

SpecInteger == Init /\ [][NextInteger]_vars

\* two quotients are the same number
SameQuotient(p, q) == p[1] * q[2] = q[1] * p[2]

\* C23: after every recorded call and every session-level delta the
\* cache_efficiency of the session is cache_read / (input + cache_created +
\* cache_read) of the counters as they are now, and 0 when that sum is 0
C23_CacheEfficiencyOfCurrentCounters ==
    last_op \in {"call", "session"} =>
       SameQuotient(token_usage.cache_efficiency, CacheEfficiencyOf(token_usage))

\* the token counters of a usage
TokenFields == {"input_tokens", "output_tokens", "cache_created_tokens", "cache_read_tokens"}

\* the recorded calls, in the order of recording, that resolve to a server / a tool
CallsToServer(server) ==
    SelectSeq(raw_calls, LAMBDA c : normalize_server_name(c.tool_name) = server)
CallsToTool(tool) ==
    SelectSeq(raw_calls, LAMBDA c : normalize_tool_name(c.tool_name) = tool)
SumOf(calls, field) == SumSeq([i \in DOMAIN calls |-> calls[i].usage[field]])

-----------------------------------------------------------------------------
(* Codex CLI: output and reasoning tokens of a token_count event *)

\* the last line read was a token_count event whose usage parse_event forwarded
TokenCountForwarded ==
    /\ last_input # None
    /\ Get(last_input[1], "type", "") = "event_msg"
    /\ Get(Get(last_input[1], "payload", <<>>), "type", "") = "token_count"
    /\ CodexParseEvent(last_input[1]) # None

\* C25: the usage parse_event forwards for a token_count event has the
\* source's output_tokens alone as output_tokens and the source's
\* reasoning_output_tokens as reasoning_tokens, and the session counts the
\* two in separate counters
C25_ReasoningNotFoldedIntoOutput ==
    TokenCountForwarded =>
       LET native == last_input[1].payload.info[1].last_token_usage[1]
           usage == CodexParseEvent(last_input[1])[1][2]
       IN /\ usage.output_tokens = native.output_tokens
          /\ "reasoning_tokens" \in DOMAIN usage
          /\ usage.reasoning_tokens = native.reasoning_output_tokens
          /\ "reasoning_tokens" \in DOMAIN token_usage
          /\ token_usage.output_tokens = native_total.output_tokens
          /\ token_usage.reasoning_tokens = native_total.reasoning_output_tokens

-----------------------------------------------------------------------------
(* Model detection of the two adapters *)

MaxModelEvents == 4

CodexModelEvents ==
    {[type |-> "turn_context", payload |-> [model |-> model]] :
        model \in {"gpt-5.1", "o4-mini", "gpt-99-turbo", ""}}
    \cup {[type |-> "turn_context", payload |-> [cwd |-> "w"]],
          TokenCountEvent(NativeUsage(4, 1, 1, 0), NativeUsage(4, 1, 1, 0)),
          [type |-> "response_item",
           payload |-> [type |-> "function_call", name |-> PlainId(Zen, Chat),
                        arguments |-> [valid |-> TRUE, value |-> <<>>],
                        call_id |-> Some("call_1")]]}

GeminiModelEvents ==
    {[name |-> METRIC_TOKEN_USAGE,
      attributes |-> [type |-> "input", model |-> model], value |-> 5] :
        model \in {"gemini-2.5-pro", "gemini-2.5-flash", "gemini-99", ""}}
    \cup {[name |-> METRIC_TOKEN_USAGE, attributes |-> [type |-> "output"], value |-> 2],
          [name |-> METRIC_TOKEN_USAGE,
           attributes |-> [type |-> "cache", model |-> "gemini-2.5-flash"], value |-> 0],
          GeminiCount(PlainId(Zen, Chat), "mcp")}

\* the model a native event names, "" when it names none
EventModel(data) ==
    IF platform = "codex-cli"
    THEN IF Get(data, "type", "") = "turn_context"
         THEN Get(Get(data, "payload", <<>>), "model", "") ELSE ""
    ELSE IF MetricIn(METRIC_TOKEN_USAGE, MetricName(data))
         THEN Get(Get(data, "attributes", <<>>), "model", "") ELSE ""

ModelCodexEvent ==
    /\ platform = "codex-cli"
    /\ steps < MaxModelEvents
    /\ \E data \in CodexModelEvents : CodexIngest(data)
    /\ last_op' = "event"
    /\ UNCHANGED <<native_total, native_last_event>>

ModelGeminiEvent ==
    /\ platform = "gemini-cli"
    /\ steps < MaxModelEvents
    /\ \E data \in GeminiModelEvents : GeminiIngest(data)
    /\ last_op' = "event"
    /\ UNCHANGED tail_vars

ModelFinalize ==
    /\ steps < MaxModelEvents
    /\ end_timestamp = None
    /\ Finalize

NextModel ==
    \/ ModelCodexEvent
    \/ ModelGeminiEvent
    \/ ModelFinalize

SpecModel == Init /\ [][NextModel]_vars

\* a step keeps the model when one is detected, and detects the model of the
\* event read when none is
ModelKeptOnceDetected ==
    /\ detected_model # None =>
          /\ detected_model' = detected_model
          /\ model_name' = model_name
          /\ session_model' = session_model
    /\ (detected_model = None /\ last_input' # last_input
           /\ EventModel(last_input'[1]) # "") =>
          /\ detected_model' = Some(EventModel(last_input'[1]))
          /\ session_model' = detected_model'
    /\ (detected_model = None /\ last_input' # last_input
           /\ EventModel(last_input'[1]) = "") =>
          /\ detected_model' = None
          /\ model_name' = UNKNOWN_MODEL

\* C26: once a model is detected, no later event changes detected_model,
\* model_name or session.model; and it is detected by the first event that
\* names one (a Codex turn_context event with a non-empty model, a Gemini
\* token.usage event with a model attribute)
C26_ModelDetectedOnce == [][ModelKeptOnceDetected]_vars

\* a model was detected and the event just read names another one
C26_Witness ==
    /\ detected_model # None
    /\ last_input # None
    /\ EventModel(last_input[1]) \notin {"", detected_model[1]}
    /\ session_model = detected_model
    /\ model_name # UNKNOWN_MODEL

-----------------------------------------------------------------------------
(* Gemini CLI: token.usage and tool.call.count events, the pending-token
   buffer and the session totals *)

MaxGeminiEvents == 4

GeminiTokens(type, value) ==
    [name |-> METRIC_TOKEN_USAGE, attributes |-> [type |-> type], value |-> value]

\* telemetry events: token usage of every type Gemini CLI reports ("tool" is
\* one the adapter has no counter for), with and without tokens, and
\* tool-call counts of an MCP tool, a native tool and a tool without prefix
GeminiTelemetryEvents ==
    {GeminiTokens("input", 3), GeminiTokens("input", 0), GeminiTokens("output", 2),
     GeminiTokens("thought", 1), GeminiTokens("cache", 5), GeminiTokens("tool", 4),
     GeminiCount(PlainId(Zen, Chat), "mcp"),
     GeminiCount(<<"r", "e", "a", "d">>, "native"),
     GeminiCount(<<"s", "o", "m", "e">>, "mcp")}

InitGemini ==
    /\ platform = "gemini-cli"
    /\ InitSession

\* one telemetry event passes through parse_event and _process_tool_call
GeminiTelemetryEvent ==
    /\ steps < MaxGeminiEvents
    /\ end_timestamp = None
    /\ \E data \in GeminiTelemetryEvents :
          /\ GeminiIngest(data)
          /\ parsed' = Append(parsed, data)
    /\ last_op' = "event"
    /\ UNCHANGED <<telemetry, file_exists, file_position, batch>>

GeminiFinalize ==
    /\ end_timestamp = None
    /\ Finalize

NextGemini ==
    \/ GeminiTelemetryEvent
    \/ GeminiFinalize

SpecGemini == InitGemini /\ [][NextGemini]_vars

IsTokenUsage(data) == MetricIn(METRIC_TOKEN_USAGE, MetricName(data))
IsToolCallCount(data) == MetricIn(METRIC_TOOL_CALL_COUNT, MetricName(data))
IsMcpToolCall(data) ==
    /\ IsToolCallCount(data)
    /\ data.attributes.tool_type = "mcp"
    /\ StartsWith(data.attributes.function_name, MCP_PREFIX)

\* the tokens the token.usage events of a sequence report
ReportedTokens(events) ==
    SumSeq([i \in DOMAIN events |->
              IF IsTokenUsage(events[i]) /\ events[i].value > 0 THEN events[i].value ELSE 0])

\* C27: after any sequence of telemetry events the session's total_tokens is
\* the sum of the values of the token.usage events with value > 0: every
\* reported token is counted once, also when an MCP tool call takes it from
\* the pending buffer
C27_EveryTokenCountedOnce ==
    token_usage.total_tokens = ReportedTokens(parsed)

\* the events after the last MCP tool call of a sequence
SinceLastMcp(events) ==
    LET calls == {i \in DOMAIN events : IsMcpToolCall(events[i])}
        last == IF calls = {} THEN 0 ELSE CHOOSE i \in calls : \A j \in calls : j <= i
    IN SubSeq(events, last + 1, Len(events))

\* the tokens of one type that the token.usage events of a sequence report
TypeSum(events, type) ==
    SumSeq([i \in DOMAIN events |->
              IF IsTokenUsage(events[i]) /\ events[i].attributes.type = type
              THEN events[i].value ELSE 0])

NoPending == [input |-> 0, output |-> 0, cache |-> 0, thought |-> 0]

\* a step that reads a tool.call.count event: an MCP one is given the tokens
\* reported since the MCP call before it and empties the buffer, another one
\* is not forwarded and leaves the buffer as it is
PendingAttributedAndReset ==
    parsed' # parsed =>
       LET data == parsed'[Len(parsed')]
           since == SinceLastMcp(parsed)
           result == GeminiParseEvent(data)
       IN /\ IsMcpToolCall(data) =>
                /\ result # None
                /\ result[1][1] = data.attributes.function_name
                /\ result[1][2].input_tokens = TypeSum(since, "input")
                /\ result[1][2].output_tokens = TypeSum(since, "output")
                /\ result[1][2].cache_read_tokens = TypeSum(since, "cache")
                /\ pending_tokens' = NoPending
          /\ (IsToolCallCount(data) /\ ~IsMcpToolCall(data)) =>
                /\ result = None
                /\ pending_tokens' = pending_tokens

\* C28: the usage of an MCP tool.call.count event carries as input, output
\* and cache-read tokens the sums of the token.usage values of these types
\* seen since the previous MCP tool-call event (or since the start), after it
\* the four pending counters are 0, and a tool-call event that is not MCP
\* leaves the pending counters unchanged
C28_PendingTokensAttributedOnce == [][PendingAttributedAndReset]_vars

\* an MCP tool call was just read, after input, thought and cache tokens and
\* a native tool call in between, and the buffer is empty
C28_Witness ==
    /\ Len(parsed) >= 4
    /\ IsMcpToolCall(parsed[Len(parsed)])
    /\ pending_tokens = NoPending
    /\ LET since == SinceLastMcp(SubSeq(parsed, 1, Len(parsed) - 1))
       IN /\ \E i \in DOMAIN since : IsToolCallCount(since[i])
          /\ TypeSum(since, "input") > 0
          /\ TypeSum(since, "thought") + TypeSum(since, "cache") > 0
          /\ \E i \in DOMAIN since : \E j \in DOMAIN since :
                i < j /\ IsToolCallCount(since[i]) /\ IsTokenUsage(since[j])

-----------------------------------------------------------------------------
(* Gemini CLI: tailing the telemetry file. Gemini CLI appends to the file
   while _process_new_telemetry polls it. A line is written in two halves,
   the second ending with the newline: in one write, or in two with a poll
   possibly in between. Offsets are counted in halves. *)

MaxTailLines == 3

\* the events Gemini CLI writes, one per line
TailEvents == {GeminiTokens("input", 3), GeminiCount(PlainId(Zen, Chat), "mcp")}

\* everything but last_op, pc and the file and its reader
untailed_vars ==
    <<platform, ledger, derived, end_timestamp, session_server_sessions, model_vars,
      gemini_vars, codex_vars, raw_calls, session_deltas, finalize_streak, steps,
      last_input, source_files, saved, telemetry_had_events, escaped, display_vars>>

LinesWritten == Cardinality({i \in DOMAIN telemetry : telemetry[i].half = "head"})
Half(data, half) ==
    [line |-> LinesWritten + 1, half |-> half, data |-> data, tracked |-> pc = "tracking"]
HalfOpen == telemetry # <<>> /\ telemetry[Len(telemetry)].half = "head"

\* Gemini CLI appends one whole line
WriteLine ==
    /\ ~HalfOpen
    /\ LinesWritten < MaxTailLines
    /\ \E data \in TailEvents :
          telemetry' = telemetry \o <<Half(data, "head"),
                                      [Half(data, "tail") EXCEPT !.line = LinesWritten + 1]>>
    /\ file_exists' = TRUE
    /\ last_op' = "write"
    /\ UNCHANGED <<untailed_vars, pc, file_position, batch, parsed>>

\* Gemini CLI appends the first bytes of a line
WriteHead ==
    /\ ~HalfOpen
    /\ LinesWritten < MaxTailLines
    /\ \E data \in TailEvents : telemetry' = Append(telemetry, Half(data, "head"))
    /\ file_exists' = TRUE
    /\ last_op' = "write"
    /\ UNCHANGED <<untailed_vars, pc, file_position, batch, parsed>>

\* Gemini CLI appends the rest of the line it began, and the newline
WriteTail ==
    /\ HalfOpen
    /\ telemetry' = Append(telemetry, [telemetry[Len(telemetry)] EXCEPT !.half = "tail"])
    /\ last_op' = "write"
    /\ UNCHANGED <<untailed_vars, pc, file_exists, file_position, batch, parsed>>

\* start_tracking: start from the end of the file, if there is one
TailStart ==
    /\ pc = "created"
    /\ pc' = "tracking"
    /\ file_position' = IF file_exists THEN Len(telemetry) ELSE file_position
    /\ last_op' = "start"
    /\ UNCHANGED <<untailed_vars, telemetry, file_exists, batch, parsed>>

\* new_content.strip().split("\n"): the texts between the newlines; a head
\* followed by its tail is the line, a half alone is a piece of one
RECURSIVE SplitLines(_)
SplitLines(content) ==
    IF content = <<>> THEN <<>>
    ELSE IF Len(content) >= 2 /\ content[1].half = "head" /\ content[2].half = "tail"
         THEN <<[line |-> content[1].line, text |-> "whole", data |-> content[1].data]>>
                 \o SplitLines(SubSeq(content, 3, Len(content)))
    ELSE <<[line |-> content[1].line, text |-> content[1].half, data |-> content[1].data]>>
            \o SplitLines(Tail(content))

\* variant: the file is read line by line while the lines are processed, so
\* a failing read comes after lines were processed
ReadNewContent_LineByLine(fault) ==
    [lines |-> IF fault = "open" THEN <<>>
               ELSE SplitLines(SubSeq(telemetry, file_position + 1, Len(telemetry))),
     end |-> Len(telemetry),
     failed |-> fault # "none",
     before |-> [token_usage |-> token_usage, server_sessions |-> server_sessions,
                 call_index |-> call_index, file_position |-> file_position,
                 parsed |-> parsed]]

\* open, seek(file_position), read(): the new content, or the OSError that
\* open or read raised; before is history, the state the poll began in
ReadNewContent(fault) ==
    [lines |-> IF fault # "none" THEN <<>>
               ELSE SplitLines(SubSeq(telemetry, file_position + 1, Len(telemetry))),
     end |-> Len(telemetry),
     failed |-> fault # "none",
     before |-> [token_usage |-> token_usage, server_sessions |-> server_sessions,
                 call_index |-> call_index, file_position |-> file_position,
                 parsed |-> parsed]]

\* _process_new_telemetry when the file does not exist: it returns
PollMissingFile ==
    /\ pc = "tracking"
    /\ batch = None
    /\ ~file_exists
    /\ last_op' = "poll_missing"
    /\ UNCHANGED <<untailed_vars, pc, tail_vars>>

\* _process_new_telemetry opens the file and reads what is new
PollRead ==
    /\ pc = "tracking"
    /\ batch = None
    /\ file_exists
    /\ \E fault \in {"none", "open", "read"} : batch' = Some(ReadNewContent(fault))
    /\ last_op' = "poll_read"
    /\ UNCHANGED <<untailed_vars, pc, telemetry, file_exists, file_position, parsed>>

\* the loop over the lines read: parse_event and _process_tool_call of one;
\* a piece of a line is no JSON text, parse_event reports it and returns None
PollLine ==
    /\ batch # None
    /\ batch[1].lines # <<>>
    /\ LET line == Head(batch[1].lines)
       IN /\ IF line.text = "whole"
             THEN GeminiIngest(line.data)
             ELSE UNCHANGED <<untailed_vars, pc>>
          /\ parsed' = Append(parsed, [line |-> line.line, text |-> line.text])
    /\ batch' = Some([batch[1] EXCEPT !.lines = Tail(@)])
    /\ last_op' = "poll_line"
    /\ UNCHANGED <<telemetry, file_exists, file_position>>

\* the end of _process_new_telemetry: file_position = f.tell(), or the
\* except clause that reports the OSError
PollEnd ==
    /\ batch # None
    /\ batch[1].lines = <<>>
    /\ IF batch[1].failed
       THEN /\ last_op' = "poll_error"
            /\ UNCHANGED file_position
       ELSE /\ last_op' = "poll_end"
            /\ file_position' = batch[1].end
    /\ batch' = None
    /\ UNCHANGED <<untailed_vars, pc, telemetry, file_exists, parsed>>

NextTail ==
    \/ WriteLine
    \/ WriteHead
    \/ WriteTail
    \/ TailStart
    \/ PollMissingFile
    \/ PollRead
    \/ PollLine
    \/ PollEnd

SpecTail == InitGemini /\ [][NextTail]_vars

\* the lines that are complete in the file and were begun after tracking started
CompleteTrackedLines ==
    {telemetry[i].line : i \in {j \in DOMAIN telemetry :
                                   telemetry[j].half = "tail" /\ telemetry[j].tracked
                                   /\ telemetry[j - 1].tracked}}
TimesParsed(n) ==
    Cardinality({i \in DOMAIN parsed : parsed[i].line = n /\ parsed[i].text = "whole"})
\* the offset just after line n
EndOfLine(n) ==
    CHOOSE i \in DOMAIN telemetry : telemetry[i].line = n /\ telemetry[i].half = "tail"

\* C29: under any interleaving of writes and polls, every complete line
\* appended after tracking started that lies before file_position has been
\* parsed, and none is parsed twice, also when the line was written in two
\* pieces with a poll in between
C29_EveryLineParsedOnce ==
    \A n \in CompleteTrackedLines :
       /\ TimesParsed(n) <= 1
       /\ (batch = None /\ EndOfLine(n) <= file_position) => TimesParsed(n) = 1

\* what holds of the reader: no line is parsed twice, every line that was
\* written in one piece and lies before file_position was parsed once
LinesInOnePieceParsedOnce ==
    \A n \in CompleteTrackedLines :
       /\ TimesParsed(n) <= 1
       /\ (batch = None /\ EndOfLine(n) <= file_position
             /\ ~\E i \in DOMAIN parsed : parsed[i].line = n /\ parsed[i].text # "whole")
          => TimesParsed(n) = 1

\* a poll moves file_position forward or leaves it
FilePositionMonotonic == [][file_position' >= file_position]_vars

\* a poll that ends because the file is missing or because open or read
\* raised OSError leaves the ledger and file_position as they were when the
\* poll began, and tracking goes on
FailedPollChangesNothing ==
    last_op' \in {"poll_missing", "poll_error"} =>
       LET before == IF batch = None
                     THEN [token_usage |-> token_usage, server_sessions |-> server_sessions,
                           call_index |-> call_index, file_position |-> file_position,
                           parsed |-> parsed]
                     ELSE batch[1].before
       IN /\ token_usage' = before.token_usage
          /\ server_sessions' = before.server_sessions
          /\ call_index' = before.call_index
          /\ file_position' = before.file_position
          /\ parsed' = before.parsed
          /\ batch' = None
          /\ escaped' = None
          /\ pc' = "tracking"

\* C30: when the telemetry file does not exist, or opening or reading it
\* raises an I/O error, _process_new_telemetry does not raise and changes
\* neither the ledger nor file_position: the next poll resumes from the same
\* offset
C30_FailedPollChangesNothing == [][FailedPollChangesNothing]_vars

\* a poll has just ended with an I/O error, after an earlier poll parsed a
\* line, and a complete new line is waiting behind file_position
C30_Witness ==
    /\ last_op = "poll_error"
    /\ batch = None
    /\ file_position > 0
    /\ \E n \in CompleteTrackedLines : TimesParsed(n) = 1
    /\ \E n \in CompleteTrackedLines : TimesParsed(n) = 0 /\ EndOfLine(n) > file_position
    /\ token_usage.total_tokens > 0

-----------------------------------------------------------------------------
(* Gemini CLI: tool.call.latency events and the duration of the calls *)

MaxLatencyEvents == 4

GeminiLatency(function_name, value) ==
    [name |-> METRIC_TOOL_CALL_LATENCY,
     attributes |-> [function_name |-> function_name], value |-> value]

\* latencies of two MCP tools and of no tool, and tool calls, MCP and native,
\* of the same tools
GeminiLatencyEvents ==
    {GeminiLatency(PlainId(Zen, Chat), 7), GeminiLatency(PlainId(Zen, Chat), 40),
     GeminiLatency(PlainId(BraveSearch, Web), 9), GeminiLatency(<<>>, 5),
     GeminiCount(PlainId(Zen, Chat), "mcp"),
     GeminiCount(PlainId(BraveSearch, Web), "mcp"),
     GeminiCount(PlainId(Zen, Chat), "native")}

GeminiLatencyEvent ==
    /\ steps < MaxLatencyEvents
    /\ end_timestamp = None
    /\ \E data \in GeminiLatencyEvents :
          /\ GeminiIngest(data)
          /\ parsed' = Append(parsed, data)
    /\ last_op' = "event"
    /\ UNCHANGED <<telemetry, file_exists, file_position, batch>>

NextLatency ==
    \/ GeminiLatencyEvent
    \/ GeminiFinalize

SpecLatency == InitGemini /\ [][NextLatency]_vars

IsLatency(data) ==
    /\ ~IsToolCallCount(data)
    /\ ~IsTokenUsage(data)
    /\ MetricIn(METRIC_TOOL_CALL_LATENCY, MetricName(data))

\* the events of a sequence after the last MCP tool call for function f
SinceLastCallOf(events, f) ==
    LET calls == {i \in DOMAIN events :
                    IsMcpToolCall(events[i]) /\ events[i].attributes.function_name = f}
        last == IF calls = {} THEN 0 ELSE CHOOSE i \in calls : \A j \in calls : j <= i
    IN SubSeq(events, last + 1, Len(events))

\* the latencies a sequence of events reports for function f, oldest first
LatenciesOf(events, f) ==
    SelectSeq(events, LAMBDA e : IsLatency(e) /\ e.attributes.function_name = f)

\* a step that reads an MCP tool call for f gives it the latest latency seen
\* for f since the MCP call for f before it, 0 if there is none, and removes
\* the pending entry of f and of no other function; the recorded call has
\* that duration
LatencyAttributedToNextCall ==
    (parsed' # parsed /\ IsMcpToolCall(parsed'[Len(parsed')])) =>
       LET data == parsed'[Len(parsed')]
           f == data.attributes.function_name
           seen == LatenciesOf(SinceLastCallOf(parsed, f), f)
           expected == IF seen = <<>> THEN 0 ELSE seen[Len(seen)].value
           result == GeminiParseEvent(data)
       IN /\ result # None
          /\ result[1][2].duration_ms = expected
          /\ raw_calls'[Len(raw_calls')].duration_ms = expected
          /\ f \notin DictKeys(pending_latencies')
          /\ \A g \in DictKeys(pending_latencies) :
                g # f => /\ g \in DictKeys(pending_latencies')
                         /\ DictGet(pending_latencies', g) = DictGet(pending_latencies, g)

\* C31: a pending latency for function f goes to the next MCP tool call for
\* f and to no other call: that call's duration_ms is the most recent
\* latency seen for f, the pending entry is removed on attribution, and an
\* MCP call with no pending latency for its function gets duration 0
C31_LatencyAttributedToNextCall == [][LatencyAttributedToNextCall]_vars

\* two latencies for one tool and a call of another tool in between were
\* read, then the call of the tool: it has the later latency
C31_Witness ==
    /\ Len(parsed) = 4
    /\ parsed[1] = GeminiLatency(PlainId(Zen, Chat), 40)
    /\ parsed[2] = GeminiLatency(PlainId(Zen, Chat), 7)
    /\ parsed[3] = GeminiCount(PlainId(BraveSearch, Web), "mcp")
    /\ parsed[4] = GeminiCount(PlainId(Zen, Chat), "mcp")
    /\ raw_calls[1].duration_ms = 0
    /\ raw_calls[2].duration_ms = 7
    /\ pending_latencies = <<>>

-----------------------------------------------------------------------------
(* Codex CLI: content hashes of function calls and the duplicates counted *)

MaxHashCalls == 3

HashTools == {PlainId(Zen, Chat), SuffixedId(Zen, Chat), PlainId(Zen, ThinkDeep)}

\* the arguments string of a function_call event: two JSON objects, the
\* empty object, and a text that is no JSON
HashArguments ==
    {[valid |-> TRUE, value |-> <<"p">>], [valid |-> TRUE, value |-> <<"q">>],
     [valid |-> TRUE, value |-> <<>>], [valid |-> FALSE, value |-> <<"p">>]}

\* one function_call line passes through parse_event and _process_tool_call;
\* the history keeps the arguments as they were written
HashFunctionCall ==
    /\ steps < MaxHashCalls
    /\ end_timestamp = None
    /\ \E name \in HashTools, arguments \in HashArguments :
          LET data == [type |-> "response_item",
                       payload |-> [type |-> "function_call", name |-> name,
                                    arguments |-> arguments, call_id |-> Some("call_1")]]
              result == CodexParseEvent(data)
          IN /\ result # None
             /\ CodexProcessToolCall(result[1][1], result[1][2])
             /\ raw_calls' = Append(raw_calls, [tool_name |-> name, total |-> 0,
                                                arguments |-> arguments])
             /\ last_input' = Some(data)
    /\ has_received_events' = TRUE
    /\ last_op' = "function_call"
    /\ steps' = steps + 1
    /\ finalize_streak' = 0
    /\ UNCHANGED <<platform, derived, end_timestamp, session_server_sessions, model_vars,
                   gemini_vars, native_total, native_last_event, session_deltas, run_vars>>

HashFinalize ==
    /\ end_timestamp = None
    /\ Finalize

NextHashes ==
    \/ HashFunctionCall
    \/ HashFinalize

SpecHashes == InitCodex /\ [][NextHashes]_vars

\* call k repeats an earlier call of the same tool with identical arguments
RepeatsEarlierCall(k) ==
    \E j \in 1..(k - 1) :
       /\ normalize_tool_name(raw_calls[j].tool_name)
             = normalize_tool_name(raw_calls[k].tool_name)
       /\ raw_calls[j].arguments = raw_calls[k].arguments

HasArguments(k) == raw_calls[k].arguments.valid /\ raw_calls[k].arguments.value # <<>>

\* C32: a call is counted in duplicate_calls only when an earlier call of the
\* same tool had identical arguments: the calls of one content-hash bucket
\* are calls of one tool, calls with empty or unparseable arguments carry no
\* content hash, and duplicate_calls is the number of calls with arguments
\* that repeat an earlier call of their tool
C32_DuplicatesAreRepeatsOfTheSameTool ==
    /\ \A i \in DOMAIN content_hashes :
          \A a \in DOMAIN content_hashes[i].val : \A b \in DOMAIN content_hashes[i].val :
             CallAt(content_hashes[i].val[a]).tool_name
                = CallAt(content_hashes[i].val[b]).tool_name
    /\ \A k \in DOMAIN raw_calls : ~HasArguments(k) => CallAt(k).content_hash = None
    /\ redundancy_analysis # None =>
          redundancy_analysis[1].duplicate_calls =
             Cardinality({k \in DOMAIN raw_calls : HasArguments(k) /\ RepeatsEarlierCall(k)})

\* what holds: calls without arguments carry no hash, and the duplicates are
\* the calls whose arguments repeat those of an earlier call of any tool
DuplicatesAreRepeatsOfAnyTool ==
    /\ \A k \in DOMAIN raw_calls : ~HasArguments(k) => CallAt(k).content_hash = None
    /\ redundancy_analysis # None =>
          redundancy_analysis[1].duplicate_calls =
             Cardinality({k \in DOMAIN raw_calls :
                            /\ HasArguments(k)
                            /\ \E j \in 1..(k - 1) :
                                  raw_calls[j].arguments = raw_calls[k].arguments})

-----------------------------------------------------------------------------
(* Gemini CLI: the thought tokens in the platform metadata of a call *)

\* C33: the thoughts_tokens stored in the platform metadata of a recorded
\* call are the thought tokens reported by token.usage events since the MCP
\* tool call before it, for every sequence of events passed through
\* parse_event and then _process_tool_call
C33_ThoughtsTokensOfTheCall ==
    (parsed # <<>> /\ IsMcpToolCall(parsed[Len(parsed)])) =>
       CallAt(call_index).platform_data.thoughts_tokens =
          TypeSum(SinceLastMcp(SubSeq(parsed, 1, Len(parsed) - 1)), "thought")

-----------------------------------------------------------------------------
(* Name Normalizer: normalizing what normalization returned *)

MaxNormalizations == 3

NormalizerSegments ==
    {Zen, Zen \o MCP_SUFFIX, Zen \o MCP_SUFFIX \o MCP_SUFFIX, MCP_SUFFIX, BraveSearch,
     BraveSearch \o MCP_SUFFIX, <<>>, <<"z", "_">> \o MCP_SUFFIX,
     MCP_SUFFIX \o Zen}

NormalizerSuffixes == {Chat, Web, Chat \o SEP \o Web, <<>>}

\* identifiers with the prefix, with and without a tool part, and without it
NormalizerIdentifiers ==
    {PlainId(s, t) : s \in NormalizerSegments, t \in NormalizerSuffixes}
    \cup {MCP_PREFIX \o s : s \in NormalizerSegments}
    \cup {Read, Zen \o SEP \o Chat, <<>>}

\* the (server, tool) pair normalization returns
Normalized(tool_name) ==
    [server |-> normalize_server_name(tool_name), tool |-> normalize_tool_name(tool_name)]

normalizer_frame ==
    <<platform, ledger, derived, end_timestamp, session_server_sessions, model_vars,
      gemini_vars, codex_vars, raw_calls, session_deltas, finalize_streak, pc,
      source_files, saved, telemetry_had_events, escaped, display_vars,
      telemetry, file_exists, file_position, batch>>

\* an identifier is normalized
NormalizeIdentifier ==
    /\ last_input = None
    /\ \E x \in NormalizerIdentifiers :
          /\ last_input' = Some(x)
          /\ parsed' = <<Normalized(x)>>
    /\ last_op' = "normalize"
    /\ steps' = steps + 1
    /\ UNCHANGED normalizer_frame

\* the canonical tool name that was returned is normalized
NormalizeCanonical ==
    /\ last_input # None
    /\ Len(parsed) < MaxNormalizations
    /\ parsed' = Append(parsed, Normalized(parsed[Len(parsed)].tool))
    /\ last_op' = "normalize_canonical"
    /\ steps' = steps + 1
    /\ UNCHANGED <<normalizer_frame, last_input>>

\* the identifier is normalized once more
NormalizeSame ==
    /\ last_input # None
    /\ last_op # "normalize_same"
    /\ last_op' = "normalize_same"
    /\ steps' = steps
    /\ parsed' = [parsed EXCEPT ![1] = Normalized(last_input[1])]
    /\ UNCHANGED <<normalizer_frame, last_input>>

NextNormalize ==
    \/ NormalizeIdentifier
    \/ NormalizeCanonical
    \/ NormalizeSame

SpecNormalize == InitTracker /\ [][NextNormalize]_vars

\* a segment without its last n trailing -mcp, as far as it has them
RECURSIVE WithoutSuffixes(_, _)
WithoutSuffixes(seg, n) ==
    IF n = 0 \/ ~EndsWith(seg, MCP_SUFFIX) THEN seg
    ELSE WithoutSuffixes(SubSeq(seg, 1, Len(seg) - Len(MCP_SUFFIX)), n - 1)

\* the server segment of the identifier, read off the identifier itself
WrittenSegment ==
    LET x == last_input[1]
        rest == SubSeq(x, Len(MCP_PREFIX) + 1, Len(x))
        seps == {i \in 1..(Len(rest) - 1) : rest[i] = "_" /\ rest[i + 1] = "_"}
    IN IF seps = {} THEN rest
       ELSE SubSeq(rest, 1, (CHOOSE i \in seps : \A j \in seps : i <= j) - 1)

\* after one trailing -mcp is taken off, the segment ends neither in -mcp nor
\* in an underscore
SettlesAtOnce ==
    LET once == WithoutSuffixes(WrittenSegment, 1)
    IN ~EndsWith(once, MCP_SUFFIX) /\ ~EndsWith(once, <<"_">>)

-----------------------------------------------------------------------------
(* Ledger aggregates (spec 4.2): ToolStats, ServerSession and the call index *)

MaxLedgerSteps == 4

\* identifiers of two tools of one server, the same server under its suffixed
\* name, a second server, and a built-in tool
LedgerTools ==
    {PlainId(Zen, Chat), SuffixedId(Zen, Chat), PlainId(Zen, ThinkDeep),
     SuffixedId(BraveSearch, Web), Read}

LedgerUsages == {Usage(2, 1, 0, 1), Usage(-2, 3, 0, -1)}

LedgerCall ==
    /\ steps < MaxLedgerSteps
    /\ \E tool_name \in LedgerTools, usage \in LedgerUsages :
          /\ ProcessToolCall(tool_name, usage)
          /\ NoteCall(tool_name, usage)
    /\ UNCHANGED <<platform, derived, end_timestamp, session_server_sessions, model_vars,
                   gemini_vars, codex_vars, run_vars, last_input>>

LedgerDelta ==
    /\ steps < MaxLedgerSteps
    /\ \E usage \in LedgerUsages :
          /\ ProcessToolCall(SESSION_SENTINEL, usage)
          /\ NoteSession(usage)
    /\ UNCHANGED <<platform, derived, end_timestamp, session_server_sessions, model_vars,
                   gemini_vars, codex_vars, run_vars, last_input>>

LedgerFinalize ==
    /\ steps < MaxLedgerSteps
    /\ finalize_session
    /\ last_op' = "finalize"
    /\ finalize_streak' = finalize_streak + 1
    /\ steps' = steps + 1
    /\ UNCHANGED <<platform, model_vars, gemini_vars, codex_vars, raw_calls, session_deltas,
                   run_vars, last_input>>

NextLedger ==
    \/ LedgerCall
    \/ LedgerDelta
    \/ LedgerFinalize

SpecLedger == Init /\ [][NextLedger]_vars

\* the totals of the Calls in one call history
HistoryTotals(call_history) ==
    [i \in DOMAIN call_history |-> call_history[i].total_tokens]

\* a ToolStats agrees with its own call history
ToolStatsConsistent(ts) ==
    /\ ts.calls = Len(ts.call_history)
    /\ ts.total_tokens = SumSeq(HistoryTotals(ts.call_history))
    /\ ts.calls > 0 => ts.avg_tokens = <<ts.total_tokens, ts.calls>>

\* a ServerSession agrees with the ToolStats of its tools
ServerSessionConsistent(ss) ==
    /\ ss.total_calls = SumSeq([j \in DOMAIN ss.tools |-> ss.tools[j].val.calls])
    /\ ss.total_tokens = SumSeq([j \in DOMAIN ss.tools |-> ss.tools[j].val.total_tokens])

LedgerAggregatesConsistent ==
    /\ \A i \in DOMAIN server_sessions :
          /\ ServerSessionConsistent(server_sessions[i].val)
          /\ \A j \in DOMAIN server_sessions[i].val.tools :
                ToolStatsConsistent(server_sessions[i].val.tools[j].val)
    /\ SumSeq([i \in DOMAIN server_sessions |-> server_sessions[i].val.total_calls])
          = call_index

\* a step removes no ServerSession and no ToolStats entry
LedgerEntriesKept ==
    \A server \in DictKeys(server_sessions) :
        /\ server \in DictKeys(server_sessions')
        /\ DictKeys(DictGet(server_sessions, server).tools)
              \subseteq DictKeys(DictGet(server_sessions', server).tools)

\* C35: in every reachable ledger state each ToolStats has calls equal to the
\* length of its call history, total_tokens equal to the sum of its calls'
\* totals and avg_tokens equal to total_tokens / calls; each ServerSession has
\* total_calls and total_tokens equal to the sums over its tools; the
\* total_calls of all servers add up to the highest call index assigned; and no
\* step removes a ServerSession or ToolStats entry
C35_LedgerAggregatesConsistent ==
    []LedgerAggregatesConsistent /\ [][LedgerEntriesKept]_vars

C35_Witness ==
    /\ Len(server_sessions) >= 2
    /\ \E i \in DOMAIN server_sessions : Len(server_sessions[i].val.tools) >= 2
    /\ \E i \in DOMAIN AllToolStats :
          AllToolStats[i].val.calls >= 2 /\ AllToolStats[i].val.total_tokens > 0
    /\ call_index >= 4

-----------------------------------------------------------------------------
(* RichDisplay: the savings cell of the token panel and its inefficiency hint *)

MaxHintUpdates == 2

HINT_NO_REUSE ==
    <<"(", "n", "e", "w", " ", "c", "o", "n", "t", "e", "x", "t", ",", " ", "n", "o",
      " ", "r", "e", "u", "s", "e", ")">>

HINT_LOW_REUSE ==
    <<"(", "h", "i", "g", "h", " ", "c", "r", "e", "a", "t", "i", "o", "n", ",", " ",
      "l", "o", "w", " ", "r", "e", "u", "s", "e", ")">>

HINT_CREATION_OVER_SAVINGS ==
    <<"(", "c", "r", "e", "a", "t", "i", "o", "n", " ", ">", " ", "s", "a", "v", "i",
      "n", "g", "s", ")">>

HINT_NO_CACHE_ACTIVITY ==
    <<"(", "n", "o", " ", "c", "a", "c", "h", "e", " ", "a", "c", "t", "i", "v", "i",
      "t", "y", ")">>

\* variant: a ratio of exactly 0.1 is shown as low reuse
_get_cache_inefficiency_hint_LowAtThreshold(snapshot) ==
    LET created == snapshot.cache_created_tokens
        read == snapshot.cache_read_tokens
    IN IF created > 0 /\ read = 0 THEN HINT_NO_REUSE
       ELSE IF created > 0 /\ read > 0
            THEN IF 10 * read <= created
                 THEN HINT_LOW_REUSE ELSE HINT_CREATION_OVER_SAVINGS
       ELSE IF created = 0 /\ read = 0 THEN HINT_NO_CACHE_ACTIVITY
       ELSE <<>>

\* RichDisplay._get_cache_inefficiency_hint; read / created < 0.1 for integer
\* counts with created > 0 is 10 * read < created
_get_cache_inefficiency_hint(snapshot) ==
    LET created == snapshot.cache_created_tokens
        read == snapshot.cache_read_tokens
    IN IF created > 0 /\ read = 0 THEN HINT_NO_REUSE
       ELSE IF created > 0 /\ read > 0
            THEN IF 10 * read < created
                 THEN HINT_LOW_REUSE ELSE HINT_CREATION_OVER_SAVINGS
       ELSE IF created = 0 /\ read = 0 THEN HINT_NO_CACHE_ACTIVITY
       ELSE <<>>

\* row 3 of RichDisplay._build_tokens: the label of the savings cell, the
\* amount it prints and the hint appended to it; amounts in units of $0.0001
_build_tokens(snapshot) ==
    IF snapshot.cache_savings > 0
    THEN [savings_label |-> "Savings", amount |-> snapshot.cache_savings, hint |-> <<>>]
    ELSE IF snapshot.cache_savings < 0
    THEN [savings_label |-> "Net Cost", amount |-> 0 - snapshot.cache_savings,
          hint |-> _get_cache_inefficiency_hint(snapshot)]
    ELSE [savings_label |-> "Savings", amount |-> 0, hint |-> <<>>]

\* snapshots handed to the display: cache counts on both sides of the 0.1
\* ratio and at it, and savings of each sign
HintCacheCreated == {-1, 0, 1, 10, 11, 100}
HintCacheRead == {-1, 0, 1, 2, 10}
HintCacheSavings == {-3, 0, 2}

HintSnapshots ==
    [cache_created_tokens : HintCacheCreated, cache_read_tokens : HintCacheRead,
     cache_savings : HintCacheSavings]

hint_frame ==
    <<platform, ledger, derived, end_timestamp, session_server_sessions, model_vars,
      gemini_vars, codex_vars, raw_calls, session_deltas, finalize_streak, last_input,
      pc, source_files, saved, telemetry_had_events, escaped, in_flight, tail_vars,
      pinned_servers>>

\* RichDisplay.update(snapshot)
HintUpdate ==
    /\ steps < MaxHintUpdates
    /\ \E snapshot \in HintSnapshots : current_snapshot' = Some(snapshot)
    /\ last_op' = "update"
    /\ steps' = steps + 1
    /\ UNCHANGED <<hint_frame, rendered>>

\* the layout is built from the snapshot the display holds
HintBuildTokens ==
    /\ current_snapshot # None
    /\ rendered' = Some([snapshot |-> current_snapshot[1],
                         tokens |-> _build_tokens(current_snapshot[1])])
    /\ rendered' # rendered
    /\ last_op' = "refresh"
    /\ UNCHANGED <<hint_frame, current_snapshot, steps>>

NextHint ==
    \/ HintUpdate
    \/ HintBuildTokens

SpecHint == InitCodex /\ [][NextHint]_vars

\* the text contains the phrase
Says(text, phrase) ==
    \E i \in 1..(Len(text) - Len(phrase) + 1) :
        SubSeq(text, i, i + Len(phrase) - 1) = phrase

PHRASE_NO_REUSE == <<"n", "o", " ", "r", "e", "u", "s", "e">>
PHRASE_LOW_REUSE == <<"l", "o", "w", " ", "r", "e", "u", "s", "e">>
PHRASE_NO_CACHE_ACTIVITY ==
    <<"n", "o", " ", "c", "a", "c", "h", "e", " ", "a", "c", "t", "i", "v", "i", "t",
      "y">>
PHRASE_REUSE == <<"r", "e", "u", "s", "e">>

\* the cause a hint names, in the words of the cache-analysis rules
HintCause(hint) ==
    IF Says(hint, PHRASE_NO_REUSE) THEN "no reuse"
    ELSE IF Says(hint, PHRASE_LOW_REUSE) THEN "low reuse"
    ELSE IF Says(hint, PHRASE_NO_CACHE_ACTIVITY) THEN "no cache activity"
    ELSE ""

\* C36: for every snapshot with negative cache savings the hint of the savings
\* cell names the cause the cache-analysis rules give for the same creation and
\* read counts: "no reuse" exactly when creation > 0 and read = 0, "low reuse"
\* exactly when creation > 0, read > 0 and read / creation < 0.1, "no cache
\* activity" exactly when both are 0, and nothing about reuse when the rules
\* classify the counts as efficient
C36_HintNamesTheRulesCause ==
    (rendered # None /\ rendered[1].snapshot.cache_savings < 0) =>
        LET creation == rendered[1].snapshot.cache_created_tokens
            read == rendered[1].snapshot.cache_read_tokens
            hint == rendered[1].tokens.hint
            rule == CacheStatus(creation, read)
        IN /\ Says(hint, PHRASE_NO_REUSE) <=> (creation > 0 /\ read = 0)
           /\ Says(hint, PHRASE_LOW_REUSE) <=>
                 (creation > 0 /\ read > 0 /\ 10 * read < creation)
           /\ Says(hint, PHRASE_NO_CACHE_ACTIVITY) <=> (creation = 0 /\ read = 0)
           /\ rule.status = "efficient" => ~Says(hint, PHRASE_REUSE)
           /\ HintCause(hint) = rule.reason

\* a ratio of exactly 0.1 under a net cost: efficient by the rules, no word of
\* reuse in the hint
C36_Witness ==
    /\ rendered # None
    /\ rendered[1].snapshot.cache_savings < 0
    /\ rendered[1].snapshot.cache_created_tokens = 10
    /\ rendered[1].snapshot.cache_read_tokens = 1
    /\ rendered[1].tokens.savings_label = "Net Cost"
    /\ rendered[1].tokens.hint = HINT_CREATION_OVER_SAVINGS
    /\ CacheStatus(10, 1).status = "efficient"

-----------------------------------------------------------------------------
(* RichDisplay._build_tools: the server and tool lines of the MCP panel *)

MaxToolsServers == 3
MaxToolsUpdates == 1

\* content lines of the panel left for servers and tools
max_display_lines == 9

\* one line of the panel's content
Line(kind, name, servers, tools) ==
    [kind |-> kind, name |-> name, servers |-> servers, tools |-> tools]

\* the stable sort of the server list: pinned servers first
PinnedFirst(server_list) ==
    IF pinned_servers # {}
    THEN SelectSeq(server_list, LAMBDA sd : sd.server_name \in pinned_servers)
            \o SelectSeq(server_list, LAMBDA sd : sd.server_name \notin pinned_servers)
    ELSE server_list

\* variant: a server header is written whenever one line is free
ServerLineLimit_OneLineFree == max_display_lines

\* a server is shown only while a header and one tool line still fit
ServerLineLimit == max_display_lines - 1

\* the inner loop over the tools of one server, from tool j on
RECURSIVE ToolLoop(_, _, _)
ToolLoop(st, tools, j) ==
    IF j > Len(tools) THEN st
    ELSE IF st.lines_used >= max_display_lines THEN [st EXCEPT !.truncated = TRUE]
    ELSE ToolLoop([st EXCEPT
                    !.content = Append(@, Line("tool", tools[j], None, None)),
                    !.lines_used = @ + 1,
                    !.tools_shown = @ + 1],
                  tools, j + 1)

\* the outer loop over the servers, from server i on
RECURSIVE ServerLoop(_, _, _)
ServerLoop(st, server_list, i) ==
    IF i > Len(server_list) THEN st
    ELSE IF st.lines_used >= ServerLineLimit THEN [st EXCEPT !.truncated = TRUE]
    ELSE LET server_data == server_list[i]
             is_pinned == server_data.server_name \in pinned_servers
             header == [st EXCEPT
                          !.content = Append(@, Line(IF is_pinned THEN "pinned server"
                                                     ELSE "server",
                                                     server_data.server_name, None, None)),
                          !.lines_used = @ + 1,
                          !.servers_shown = @ + 1]
             shown == ToolLoop(header, server_data.tools, 1)
         IN IF shown.truncated THEN shown ELSE ServerLoop(shown, server_list, i + 1)

\* RichDisplay._build_tools: the lines of the panel's content; the columns of
\* calls and tokens on a line are left out
_build_tools(snapshot) ==
    IF snapshot.server_hierarchy # <<>>
    THEN LET total_servers == Len(snapshot.server_hierarchy)
             total_tools == SumSeq([i \in DOMAIN snapshot.server_hierarchy |->
                                        Len(snapshot.server_hierarchy[i].tools)])
             st == ServerLoop([content |-> <<>>, lines_used |-> 0, servers_shown |-> 0,
                               tools_shown |-> 0, truncated |-> FALSE],
                              PinnedFirst(snapshot.server_hierarchy), 1)
             remaining_servers == total_servers - st.servers_shown
             remaining_tools == total_tools - st.tools_shown
             indicator ==
                 IF ~st.truncated THEN <<>>
                 ELSE IF remaining_servers > 0 /\ remaining_tools > 0
                      THEN <<Line("truncation", None,
                                  Some(remaining_servers), Some(remaining_tools))>>
                 ELSE IF remaining_tools > 0
                      THEN <<Line("truncation", None, None, Some(remaining_tools))>>
                 ELSE <<>>
         IN st.content \o indicator
               \o <<Line("divider", None, None, None),
                    Line("total", None, None, Some(snapshot.total_tool_calls))>>
    ELSE <<Line("empty", None, None, None)>>

\* numbers of tools of a server: one, and enough to leave one line or none
ToolsPerServer == {1, 7, 9}

ToolsServerNames == {<<i>> : i \in 1..MaxToolsServers}

\* the hierarchy with the given numbers of tools, server by server; a server
\* is named by its place and a tool by its server and its place
HierarchyOf(sizes) ==
    [i \in DOMAIN sizes |->
        [server_name |-> <<i>>, tools |-> [j \in 1..sizes[i] |-> <<i, j>>]]]

ToolsSnapshots ==
    {[server_hierarchy |-> HierarchyOf(sizes), total_tool_calls |-> SumSeq(sizes)] :
        sizes \in UNION {[1..k -> ToolsPerServer] : k \in 0..MaxToolsServers}}

\* the display was constructed with any set of pinned servers
InitTools ==
    /\ platform = "codex-cli"
    /\ InitUnpinned
    /\ pinned_servers \in SUBSET ToolsServerNames

tools_frame ==
    <<platform, ledger, derived, end_timestamp, session_server_sessions, model_vars,
      gemini_vars, codex_vars, raw_calls, session_deltas, finalize_streak, last_input,
      pc, source_files, saved, telemetry_had_events, escaped, in_flight, tail_vars,
      pinned_servers>>

\* RichDisplay.update(snapshot)
ToolsUpdate ==
    /\ steps < MaxToolsUpdates
    /\ \E snapshot \in ToolsSnapshots : current_snapshot' = Some(snapshot)
    /\ last_op' = "update"
    /\ steps' = steps + 1
    /\ UNCHANGED <<tools_frame, rendered>>

\* the layout is built from the snapshot the display holds
ToolsBuild ==
    /\ current_snapshot # None
    /\ rendered' = Some([snapshot |-> current_snapshot[1],
                         tools |-> _build_tools(current_snapshot[1])])
    /\ rendered' # rendered
    /\ last_op' = "refresh"
    /\ UNCHANGED <<tools_frame, current_snapshot, steps>>

NextTools ==
    \/ ToolsUpdate
    \/ ToolsBuild

SpecTools == InitTools /\ [][NextTools]_vars

IsServerLine(line) == line.kind \in {"server", "pinned server"}
IsToolLine(line) == line.kind = "tool"

\* the servers and the tools of a hierarchy that a panel does not show
ServersLeftOut(hierarchy, content) ==
    {hierarchy[i].server_name : i \in DOMAIN hierarchy}
        \ {content[k].name : k \in {n \in DOMAIN content : IsServerLine(content[n])}}

ToolsLeftOut(hierarchy, content) ==
    UNION {{hierarchy[i].tools[j] : j \in DOMAIN hierarchy[i].tools} :
                i \in DOMAIN hierarchy}
        \ {content[k].name : k \in {n \in DOMAIN content : IsToolLine(content[n])}}

\* C37: for every hierarchy whose servers each have at least one tool and every
\* set of pinned servers, the panel has at most 9 server and tool lines, every
\* server header is followed by a tool line of that server, and whenever a
\* server or a tool is left out there is one truncation line whose counts are
\* the numbers of servers and of tools left out
C37_ToolsPanelWithinBudget ==
    rendered # None =>
        LET hierarchy == rendered[1].snapshot.server_hierarchy
            content == rendered[1].tools
            body == SelectSeq(content, LAMBDA line : IsServerLine(line) \/ IsToolLine(line))
            indicators == SelectSeq(content, LAMBDA line : line.kind = "truncation")
            servers_out == Cardinality(ServersLeftOut(hierarchy, content))
            tools_out == Cardinality(ToolsLeftOut(hierarchy, content))
        IN /\ Len(body) <= 9
           /\ Len(body) + servers_out + tools_out
                 = Len(hierarchy) + rendered[1].snapshot.total_tool_calls
           /\ \A k \in DOMAIN content :
                 IsServerLine(content[k]) =>
                    /\ k < Len(content)
                    /\ IsToolLine(content[k + 1])
                    /\ content[k + 1].name[1] = content[k].name[1]
           /\ (servers_out > 0 \/ tools_out > 0) =>
                 /\ Len(indicators) = 1
                 /\ indicators[1].tools = Some(tools_out)
                 /\ \/ indicators[1].servers = Some(servers_out)
                    \/ indicators[1].servers = None /\ servers_out = 0

\* a pinned server with seven tools fills eight lines; the server after it does
\* not fit although one line is free, and the truncation line counts it
C37_Witness ==
    /\ rendered # None
    /\ pinned_servers # {}
    /\ Len(rendered[1].tools) = 11
    /\ rendered[1].tools[1].kind = "pinned server"
    /\ rendered[1].tools[9].kind = "truncation"
    /\ rendered[1].tools[9].servers = Some(1)
    /\ rendered[1].tools[9].tools = Some(1)

====
